---- MODULE Spec2Model ----
(***************************************************************************)
(* CYB PASS (src/CybPss.py, src/password_generator.py): the strength       *)
(* analyzer, the variation generator and the generate_passwords aggregator *)
(* as state machines.                                                      *)
(*                                                                         *)
(* A Python str is a sequence of one-character strings.  A float is a      *)
(* fixed-point integer (thousandths).  A call of the random module draws   *)
(* from a stream Rand(seed, i); the seed is an input of each operation.    *)
(* A set hands out its strings in the order of their hashes, which the     *)
(* process seeds once (hashseed).  The console hands over the lines typed  *)
(* on it one at a time (stdin); a file is the sequence of the lines        *)
(* written to it.                                                          *)
(***************************************************************************)
EXTENDS Integers, Sequences, FiniteSets, TLC

VARIABLES
    call,            \* a pending call of a method on its own, with its arguments
    result,          \* what that call returned (NoResult before it returns)
    program,         \* the script that runs: "CybPss" or "password_generator"
    pc,              \* where the session is: at the menu, or in the top-up loop
    passwords,       \* self.passwords, the pool
    user_info,       \* self.user_info, the profile (<<>> is the empty dict)
    info_list,       \* generate_passwords: the non-empty text fields
    requested_count, \* generate_passwords: the count asked for
    generated_count, \* generate_passwords: the loop's count of candidates
    batch_size,      \* generate_passwords: passes of the for loop in a batch
    batch_passwords, \* generate_passwords: the candidates of the current batch
    iter,            \* generate_passwords: passes of the for loop begun in this batch
    natural,         \* the pool as it was after line 559 of the last generation
    batches,         \* batches of the top-up loop run by the last generation
    generations,     \* generations begun in this session
    hashseed,        \* the process's string-hash seed: the order of every set
    stdin,           \* the lines typed on the console and not yet read
    files,           \* the files written so far, in the order of their writing
    exit_code,       \* <<>> while the process runs, then <<its exit status>>
    screen           \* what the step taken last printed on the console

callVars == <<call, result>>

loopVars == <<info_list, requested_count, generated_count, batch_size,
              batch_passwords, iter>>

ioVars == <<stdin, files, exit_code, screen>>

sessionVars == <<program, pc, passwords, user_info, info_list, requested_count,
                 generated_count, batch_size, batch_passwords, iter, natural,
                 batches, generations, hashseed, stdin, files, exit_code, screen>>

vars == <<call, result, program, pc, passwords, user_info, info_list,
          requested_count, generated_count, batch_size, batch_passwords, iter,
          natural, batches, generations, hashseed, stdin, files, exit_code, screen>>

\* no method is called on its own
NoCall == [op |-> "none"]
NoResult == [done |-> FALSE, value |-> <<>>]

\* what a step leaves on the console: the entries typed during it, its
\* message and, for a save, the names listed as saved and the errors the
\* exporters printed
show(message) ==
    [shows |-> message, typed |-> <<>>, saved |-> <<>>, failed |-> {}, average |-> <<>>]

(***************************************************************************)
(* Characters: string.ascii_lowercase, string.ascii_uppercase,             *)
(* string.digits and the literals of the source.                           *)
(***************************************************************************)
ascii_lowercase ==
    <<"a","b","c","d","e","f","g","h","i","j","k","l","m",
      "n","o","p","q","r","s","t","u","v","w","x","y","z">>

ascii_uppercase ==
    <<"A","B","C","D","E","F","G","H","I","J","K","L","M",
      "N","O","P","Q","R","S","T","U","V","W","X","Y","Z">>

digits == <<"0","1","2","3","4","5","6","7","8","9">>

ascii_letters == ascii_lowercase \o ascii_uppercase

\* "!@#$%^&*()_+-=[]{}|;:,.<>?"
special_chars ==
    <<"!","@","#","$","%","^","&","*","(",")","_","+","-",
      "=","[","]","{","}","|",";",":",",",".","<",">","?">>

Range(s) == {s[i] : i \in 1..Len(s)}

LowerSet == Range(ascii_lowercase)
UpperSet == Range(ascii_uppercase)
DigitSet == Range(digits)
SpecialSet == Range(special_chars)

\* str.lower() / str.upper() of one character
LowerOf == [c \in UpperSet |-> ascii_lowercase[CHOOSE i \in 1..26 : ascii_uppercase[i] = c]]
UpperOf == [c \in LowerSet |-> ascii_uppercase[CHOOSE i \in 1..26 : ascii_lowercase[i] = c]]

char_lower(c) == IF c \in UpperSet THEN LowerOf[c] ELSE c
char_upper(c) == IF c \in LowerSet THEN UpperOf[c] ELSE c

str_lower(s) == [i \in 1..Len(s) |-> char_lower(s[i])]

isupper(c) == c \in UpperSet
islower(c) == c \in LowerSet
isdigit(c) == c \in DigitSet

\* pattern in s
str_contains(s, pattern) ==
    \E i \in 1..(Len(s) - Len(pattern) + 1) :
        SubSeq(s, i, i + Len(pattern) - 1) = pattern

Bool2Int(b) == IF b THEN 1 ELSE 0

(***************************************************************************)
(* PasswordAnalyzer                                                        *)
(***************************************************************************)
common_patterns ==
    << <<"1","2","3">>, <<"a","b","c">>, <<"q","w","e">>,
       <<"p","a","s","s","w","o","r","d">>, <<"a","d","m","i","n">> >>

\* x ** 0.5 in thousandths, rounded down, for the sums of alphabet sizes
Sqrt1000 ==
    [n \in 0..100 |->
        CHOOSE r \in 0..10000 : r * r <= n * 1000000 /\ (r + 1) * (r + 1) > n * 1000000]

\* mutant: the thresholds taken strictly
length_score_strict(length) ==
    IF length > 12 THEN 2 ELSE IF length > 8 THEN 1 ELSE 0

\* mutant: the bonus grows with the pool of the session
length_score_of_pool(length) ==
    (IF length >= 12 THEN 2 ELSE IF length >= 8 THEN 1 ELSE 0) + Len(passwords)

\* mutant: a third point from 16 characters on
length_score_long(length) ==
    IF length >= 16 THEN 3 ELSE IF length >= 12 THEN 2 ELSE IF length >= 8 THEN 1 ELSE 0

\* lines 109-113: the length bonus
length_score(length) ==
    IF length >= 12 THEN 2 ELSE IF length >= 8 THEN 1 ELSE 0

\* lines 115-117: one point for each character class present
type_score(has_upper, has_lower, has_digit, has_special) ==
    Bool2Int(has_upper) + Bool2Int(has_lower) + Bool2Int(has_digit) + Bool2Int(has_special)

\* lines 120-121: any(pattern in password.lower() for pattern in common_patterns)
has_common_patterns(password) ==
    \E p \in 1..Len(common_patterns) :
        str_contains(str_lower(password), common_patterns[p])

\* mutant: the penalty taken once for every pattern that occurs
pattern_score_each(password) ==
    LET hits == {p \in 1..Len(common_patterns) :
                    str_contains(str_lower(password), common_patterns[p])}
    IN  0 - Cardinality(hits)

\* mutant: a penalty of two points
pattern_score_double(password) ==
    IF has_common_patterns(password) THEN -2 ELSE 0

\* lines 123-124: what a common pattern adds to the score
pattern_score(password) ==
    IF has_common_patterns(password) THEN -1 ELSE 0

\* mutant: the special alphabet counted by the length of its literal
charset_size_literal(has_lower, has_upper, has_digit, has_special) ==
    (IF has_lower THEN 26 ELSE 0) + (IF has_upper THEN 26 ELSE 0)
    + (IF has_digit THEN 10 ELSE 0) + (IF has_special THEN Len(special_chars) ELSE 0)

\* lines 127-136
charset_size(has_lower, has_upper, has_digit, has_special) ==
    (IF has_lower THEN 26 ELSE 0) + (IF has_upper THEN 26 ELSE 0)
    + (IF has_digit THEN 10 ELSE 0) + (IF has_special THEN 32 ELSE 0)

\* mutant: the advice on length given below 8 characters only
recommendations_of_short(has_patterns, has_upper, has_lower, has_digit, has_special, length) ==
    (IF has_patterns THEN <<"Avoid common patterns">> ELSE <<>>)
    \o (IF ~has_upper THEN <<"Add uppercase letters">> ELSE <<>>)
    \o (IF ~has_lower THEN <<"Add lowercase letters">> ELSE <<>>)
    \o (IF ~has_digit THEN <<"Add numbers">> ELSE <<>>)
    \o (IF ~has_special THEN <<"Add special characters">> ELSE <<>>)
    \o (IF length < 8 THEN <<"Use at least 12 characters">> ELSE <<>>)

\* lines 125 and 141-151: the recommendations in the order they are appended
recommendations_of(has_patterns, has_upper, has_lower, has_digit, has_special, length) ==
    (IF has_patterns THEN <<"Avoid common patterns">> ELSE <<>>)
    \o (IF ~has_upper THEN <<"Add uppercase letters">> ELSE <<>>)
    \o (IF ~has_lower THEN <<"Add lowercase letters">> ELSE <<>>)
    \o (IF ~has_digit THEN <<"Add numbers">> ELSE <<>>)
    \o (IF ~has_special THEN <<"Add special characters">> ELSE <<>>)
    \o (IF length < 12 THEN <<"Use at least 12 characters">> ELSE <<>>)

\* lines 95-153
analyze_strength(password) ==
    LET length == Len(password)
        has_upper == \E i \in 1..Len(password) : isupper(password[i])
        has_lower == \E i \in 1..Len(password) : islower(password[i])
        has_digit == \E i \in 1..Len(password) : isdigit(password[i])
        has_special == \E i \in 1..Len(password) : password[i] \in SpecialSet
        score == length_score(length)
                 + type_score(has_upper, has_lower, has_digit, has_special)
                 + pattern_score(password)
        size == charset_size(has_lower, has_upper, has_digit, has_special)
        entropy == IF size > 0 THEN length * Sqrt1000[size] ELSE 0
        recommendations ==
            recommendations_of(has_common_patterns(password), has_upper, has_lower,
                               has_digit, has_special, length)
    IN  [score |-> score,
         length |-> length,
         has_upper |-> has_upper,
         has_lower |-> has_lower,
         has_digit |-> has_digit,
         has_special |-> has_special,
         has_common_patterns |-> has_common_patterns(password),
         entropy |-> entropy,
         recommendations |-> recommendations]

\* mutant: the thresholds taken strictly
get_strength_level_strict(score) ==
    IF score < 2 THEN "Weak"
    ELSE IF score < 4 THEN "Medium"
    ELSE IF score < 6 THEN "Strong"
    ELSE "Very Strong"

\* lines 155-165
get_strength_level(score) ==
    IF score <= 2 THEN "Weak"
    ELSE IF score <= 4 THEN "Medium"
    ELSE IF score <= 6 THEN "Strong"
    ELSE "Very Strong"

\* lines 946-950 and 979-980: analyze_passwords analyses every pool entry and
\* picks the first entry of least and of greatest score
analyze_passwords(pool) ==
    LET analyses == [i \in 1..Len(pool) |-> analyze_strength(pool[i])]
        weakest == CHOOSE i \in 1..Len(pool) :
                      /\ \A j \in 1..Len(pool) : analyses[i].score <= analyses[j].score
                      /\ \A j \in 1..(i - 1) : analyses[j].score > analyses[i].score
        strongest == CHOOSE i \in 1..Len(pool) :
                      /\ \A j \in 1..Len(pool) : analyses[i].score >= analyses[j].score
                      /\ \A j \in 1..(i - 1) : analyses[j].score < analyses[i].score
    IN  [analyses |-> analyses, weakest |-> weakest, strongest |-> strongest]

(***************************************************************************)
(* Python built-ins used by the generator                                  *)
(***************************************************************************)
Min(a, b) == IF a < b THEN a ELSE b
Max(a, b) == IF a > b THEN a ELSE b

\* s[:n]
str_prefix(s, n) ==
    IF n >= 0 THEN SubSeq(s, 1, Min(n, Len(s))) ELSE SubSeq(s, 1, Max(Len(s) + n, 0))

\* s[n:] for n >= 0
str_from(s, n) == SubSeq(s, Min(n, Len(s)) + 1, Len(s))

\* s[a:b] for 0 <= a <= b
str_slice(s, a, b) == SubSeq(s, Min(a, Len(s)) + 1, Min(b, Len(s)))

\* s[-n:] for n > 0
str_last(s, n) == SubSeq(s, Max(Len(s) - n, 0) + 1, Len(s))

\* s.replace(" ", "")
remove_spaces(s) == SelectSeq(s, LAMBDA c : c # " ")

\* str(n) of an int
RECURSIVE nat_str(_)
nat_str(n) ==
    IF n < 10 THEN <<digits[n + 1]>> ELSE nat_str(n \div 10) \o <<digits[(n % 10) + 1]>>

int_str(n) == IF n < 0 THEN <<"-">> \o nat_str(0 - n) ELSE nat_str(n)

\* s.zfill(width): zeros on the left, after a sign
RECURSIVE zfill(_, _)
zfill(s, width) ==
    IF Len(s) >= width THEN s
    ELSE IF Len(s) > 0 /\ s[1] \in {"+", "-"}
         THEN <<s[1]>> \o zfill(<<"0">> \o Tail(s), width - 1)
         ELSE zfill(<<"0">> \o s, width)

(***************************************************************************)
(* The random module.  Draw number i of the stream of a seed is            *)
(* Rand(seed, i); each call site of an operation reads its own stretch of  *)
(* the stream.  Seed 0 is the stream that repeats one value.               *)
(***************************************************************************)
MaxSeed == 2

Seeds == 0..MaxSeed

Rand(seed, i) == seed * i

\* random.choices(population, k=k) at a call site; k <= 0 gives the empty list
random_choices(population, k, seed, site) ==
    [i \in 1..Max(k, 0) |-> population[(Rand(seed, 32 * site + i) % Len(population)) + 1]]

\* random.choice(population) at a call site
random_choice(population, seed, site) ==
    population[(Rand(seed, 32 * site + 1) % Len(population)) + 1]

\* random.randint(a, b) at a call site
random_randint(a, b, seed, site) ==
    a + (Rand(seed, 32 * site + 1) % (b - a + 1))

(***************************************************************************)
(* PasswordGenerator.generate_password_variations                          *)
(***************************************************************************)
specials8 == <<"!","@","#","$","%","^","&","*">>
specials3 == <<"!","@","#">>
specials5 == <<"!","@","#","$","%">>

\* line 406
clean(base_info) == str_lower(remove_spaces(base_info))

\* lines 414-419: info + random numbers
variation1(clean_info, length, seed) ==
    LET random_nums == random_choices(digits, 4, seed, 1)
        v == clean_info \o random_nums
        padded == IF Len(v) < length
                  THEN v \o random_choices(ascii_letters \o digits, length - Len(v), seed, 2)
                  ELSE v
    IN  str_prefix(padded, length)

\* mutant: the special characters put before the text
variation2_specials_first(clean_info, favorite_number, length, seed) ==
    LET chars == random_choices(specials8, 2, seed, 3)
        v == chars \o clean_info \o favorite_number
        padded == IF Len(v) < length
                  THEN v \o random_choices(ascii_letters, length - Len(v), seed, 4)
                  ELSE v
    IN  str_prefix(padded, length)

\* lines 421-426: info + special characters + favorite number
variation2(clean_info, favorite_number, length, seed) ==
    LET chars == random_choices(specials8, 2, seed, 3)
        v == clean_info \o chars \o favorite_number
        padded == IF Len(v) < length
                  THEN v \o random_choices(ascii_letters, length - Len(v), seed, 4)
                  ELSE v
    IN  str_prefix(padded, length)

\* lines 428-432: mixed info with birth year
variation3(clean_info, birth_year, length, seed) ==
    LET v == str_prefix(clean_info, 3) \o birth_year \o str_from(clean_info, 3)
             \o random_choices(ascii_letters, 2, seed, 5)
        padded == IF Len(v) < length
                  THEN v \o random_choices(digits, length - Len(v), seed, 6)
                  ELSE v
    IN  str_prefix(padded, length)

\* line 435: c.upper() at even indexes (from 0), c.lower() at odd ones
alternate_case(clean_info) ==
    [i \in 1..Len(clean_info) |->
        IF (i - 1) % 2 = 0 THEN char_upper(clean_info[i]) ELSE char_lower(clean_info[i])]

\* mutant: the candidate appended without the final slice
variation4_unsliced(clean_info, length, seed) ==
    LET mixed_info == alternate_case(clean_info)
    IN  mixed_info
        \o random_choices(digits \o specials3, length - Len(mixed_info), seed, 7)

\* lines 434-437: info with alternating case
variation4(clean_info, length, seed) ==
    LET mixed_info == alternate_case(clean_info)
        v == mixed_info
             \o random_choices(digits \o specials3, length - Len(mixed_info), seed, 7)
    IN  str_prefix(v, length)

\* mutant: the number put after the text
variation5_at_end(clean_info, favorite_number, length, seed) ==
    LET v == clean_info \o favorite_number
        padded == IF Len(v) < length
                  THEN v \o random_choices(ascii_letters \o digits, length - Len(v), seed, 8)
                  ELSE v
    IN  str_prefix(padded, length)

\* lines 439-444: info with numbers in the middle
variation5(clean_info, favorite_number, length, seed) ==
    LET mid_point == Len(clean_info) \div 2
        v == str_prefix(clean_info, mid_point) \o favorite_number
             \o str_from(clean_info, mid_point)
        padded == IF Len(v) < length
                  THEN v \o random_choices(ascii_letters \o digits, length - Len(v), seed, 8)
                  ELSE v
    IN  str_prefix(padded, length)

\* lines 446-450: info + birth month and day
variation6(clean_info, birth_month, birth_day, length, seed) ==
    LET v == clean_info \o birth_month \o birth_day
             \o random_choices(ascii_letters, 2, seed, 9)
        padded == IF Len(v) < length
                  THEN v \o random_choices(digits \o specials3, length - Len(v), seed, 10)
                  ELSE v
    IN  str_prefix(padded, length)

\* lines 452-456: info with birth year at the end
variation7(clean_info, birth_year, length, seed) ==
    LET v == clean_info \o str_last(birth_year, 2)
             \o random_choices(ascii_letters, 2, seed, 11)
        padded == IF Len(v) < length
                  THEN v \o random_choices(digits \o specials5, length - Len(v), seed, 12)
                  ELSE v
    IN  str_prefix(padded, length)

\* lines 458-462: info with special pattern
variation8(clean_info, birth_month, birth_day, length, seed) ==
    LET v == str_prefix(clean_info, 2) \o birth_month \o str_slice(clean_info, 2, 4)
             \o birth_day \o str_from(clean_info, 4)
        padded == IF Len(v) < length
                  THEN v \o random_choices(ascii_letters \o digits \o specials3,
                                           length - Len(v), seed, 13)
                  ELSE v
    IN  str_prefix(padded, length)

\* src/CybPss.py lines 401-464; info is self.user_info
generate_password_variations(info, base_info, length, seed) ==
    LET clean_info == clean(base_info)
        birth_year == int_str(info.birth_year)
        birth_month == zfill(int_str(info.birth_month), 2)
        birth_day == zfill(int_str(info.birth_day), 2)
        favorite_number == int_str(info.favorite_number)
    IN  << variation1(clean_info, length, seed),
           variation2(clean_info, favorite_number, length, seed),
           variation3(clean_info, birth_year, length, seed),
           variation4(clean_info, length, seed),
           variation5(clean_info, favorite_number, length, seed),
           variation6(clean_info, birth_month, birth_day, length, seed),
           variation7(clean_info, birth_year, length, seed),
           variation8(clean_info, birth_month, birth_day, length, seed) >>

\* src/password_generator.py lines 66-106: the first five variations
basic_password_variations(info, base_info, length, seed) ==
    LET clean_info == clean(base_info)
        year_str == int_str(info.birth_year)
        favorite_number == int_str(info.favorite_number)
    IN  << variation1(clean_info, length, seed),
           variation2(clean_info, favorite_number, length, seed),
           variation3(clean_info, year_str, length, seed),
           variation4(clean_info, length, seed),
           variation5(clean_info, favorite_number, length, seed) >>

(***************************************************************************)
(* PasswordGenerator.generate_passwords                                    *)
(***************************************************************************)
\* the stream of the c-th call of an operation that draws from seed
call_seed(seed, c) == seed * c

\* the characters that str.strip() removes, among those of the model's texts
whitespace == {" ", "\t"}

\* info and info.strip(): the text holds a character that is not whitespace
non_blank(info) == \E i \in 1..Len(info) : info[i] \notin whitespace

RECURSIVE flatten(_)
flatten(lists) ==
    IF lists = <<>> THEN <<>> ELSE Head(lists) \o flatten(Tail(lists))

\* the distinct elements of a list, in the order of their first occurrence
distinct(list) ==
    LET n == Len(list)
        first == {CHOOSE i \in 1..n : list[i] = s /\ \A j \in 1..(i - 1) : list[j] # s :
                    s \in Range(list)}
        kept == SelectSeq([i \in 1..n |-> i], LAMBDA i : i \in first)
    IN  [k \in 1..Len(kept) |-> list[kept[k]]]

\* random.shuffle(x): x in an order that the stream picks; the orders are the
\* rotations of x and of x reversed
random_shuffle(x, seed, site) ==
    LET n == Len(x)
        turn == Rand(seed, 32 * site + 1) % Max(n, 1)
        reversed == Rand(seed, 32 * site + 2) % 4 >= 2
    IN  [i \in 1..n |->
            LET k == ((i - 1 + turn) % n) + 1
            IN  IF reversed THEN x[n + 1 - k] ELSE x[k]]

\* hash(s) of a str under the process's hash seed: the character codes
\* mixed with their positions, in 16 bits
char_code ==
    LET all_chars == ascii_lowercase \o ascii_uppercase \o digits \o special_chars
    IN  [c \in Range(all_chars) |-> CHOOSE i \in 1..Len(all_chars) : all_chars[i] = c]

RECURSIVE str_hash_upto(_, _, _)
str_hash_upto(s, n, hash) ==
    IF n = 0 THEN hash
    ELSE LET code == IF s[n] \in DOMAIN char_code THEN char_code[s[n]] ELSE 0
         IN  (31 * str_hash_upto(s, n - 1, hash) + code + hash * n) % 65536

str_hash(s, hash) == str_hash_upto(s, Len(s), hash)

\* the order in which a set hands out its strings: by hash, and among equal
\* hashes by arrival
set_order(list, hash) ==
    LET n == Len(list)
        key == [i \in 1..n |-> str_hash(list[i], hash)] \o <<>>
        rank == [i \in 1..n |->
                    Cardinality({j \in 1..n : key[j] < key[i] \/ (key[j] = key[i] /\ j < i)})]
                \o <<>>
    IN  [k \in 1..n |-> list[CHOOSE i \in 1..n : rank[i] = k - 1]]

\* mutant: the list kept with its duplicates
list_set_keeps(list, hash) == set_order(list, hash)

\* list(set(passwords)): the distinct elements in an order the caller does
\* not control (it follows the strings' hashes, which the process seeds once)
list_set(list, hash) == set_order(distinct(list), hash)

\* random.sample(population, k): k elements at distinct drawn positions
RECURSIVE sample_from(_, _, _, _)
sample_from(population, k, seed, site) ==
    IF k <= 0 THEN <<>>
    ELSE LET j == (Rand(seed, 32 * site + k) % Len(population)) + 1
             rest == [i \in 1..(Len(population) - 1) |->
                        IF i < j THEN population[i] ELSE population[i + 1]]
         IN  <<population[j]>> \o sample_from(rest, k - 1, seed, site)

\* mutant: no field is filtered out
info_list_of_unfiltered(info) ==
    << info.name, info.nickname, info.favorite_color, info.favorite_animal,
       info.hobby, info.city, info.country, info.favorite_food,
       info.favorite_sport, info.favorite_movie, info.favorite_music,
       info.profession, info.favorite_season, info.pet_name >>

\* lines 498-516: the non-empty text fields of self.user_info
info_list_of(info) ==
    SelectSeq(<< info.name, info.nickname, info.favorite_color, info.favorite_animal,
                 info.hobby, info.city, info.country, info.favorite_food,
                 info.favorite_sport, info.favorite_movie, info.favorite_music,
                 info.profession, info.favorite_season, info.pet_name >>,
              LAMBDA x : x # <<>> /\ non_blank(x))

\* lines 523-527: the variations of every field
field_variations(info, fields, seed) ==
    flatten([i \in 1..Len(fields) |->
                generate_password_variations(info, fields[i], 12, call_seed(seed, i))])

\* lines 532-536: the variations of the fields joined in groups of three
group_variations(info, fields, seed) ==
    LET groups == (Len(fields) + 2) \div 3
        combined_info(g) ==
            flatten([k \in 1..(Min(3 * g, Len(fields)) - 3 * (g - 1)) |->
                        clean(fields[3 * (g - 1) + k])])
    IN  flatten([g \in 1..groups |->
                    IF combined_info(g) # <<>>
                    THEN generate_password_variations(
                             info, combined_info(g), 16, call_seed(seed, 20 + g))
                    ELSE <<>>])

\* lines 541-551: the variations of the birthday-based combinations
birthday_variations(info, seed) ==
    LET birthday_combos ==
            << info.name \o int_str(info.birth_year),
               info.favorite_color \o int_str(info.birth_month) \o int_str(info.birth_day),
               info.hobby \o int_str(info.birth_year) \o int_str(info.favorite_number),
               info.city \o int_str(info.birth_day) \o int_str(info.birth_month) >>
    IN  flatten([c \in 1..4 |->
                    IF birthday_combos[c] # <<>>
                    THEN generate_password_variations(
                             info, birthday_combos[c], 14, call_seed(seed, 30 + c))
                    ELSE <<>>])

\* lines 523-559: self.passwords after the natural candidates were added,
\* the duplicates removed and the list shuffled
natural_pool(pool, info, seed, hash) ==
    LET fields == info_list_of(info)
        extended == pool \o field_variations(info, fields, seed)
                    \o group_variations(info, fields, seed)
                    \o birthday_variations(info, seed)
    IN  random_shuffle(list_set(extended, hash), seed, 21)

\* mutant: the last count candidates are kept
limit_to_last(pool, count) == str_last(pool, count)

\* lines 565 and 618: self.passwords[:requested_count]
limit_to(pool, count) == str_prefix(pool, count)

\* line 562: self.user_info.get('password_count', 25)
requested_count_of(info) ==
    IF "password_count" \in DOMAIN info THEN info.password_count ELSE 25

\* mutant: every character drawn from all_chars
generate_random_enhanced_password_any_chars(length, seed) ==
    LET all_chars == ascii_lowercase \o ascii_uppercase \o digits \o special_chars
        password == [i \in 1..Max(length, 0) |->
                        all_chars[(Rand(seed, 32 * 26 + i) % Len(all_chars)) + 1]]
    IN  random_shuffle(password, seed, 27)

\* lines 466-490
generate_random_enhanced_password(length, seed) ==
    LET all_chars == ascii_lowercase \o ascii_uppercase \o digits \o special_chars
        password == << random_choice(ascii_lowercase, seed, 22),
                       random_choice(ascii_uppercase, seed, 23),
                       random_choice(digits, seed, 24),
                       random_choice(special_chars, seed, 25) >>
                    \o [i \in 1..Max(length - 4, 0) |->
                           all_chars[(Rand(seed, 32 * 26 + i) % Len(all_chars)) + 1]]
    IN  random_shuffle(password, seed, 27)

\* line 583: the strategy that one pass of the for loop draws
topup_strategy(seed) ==
    random_choice(<<"info_based", "random_enhanced", "combined_enhanced">>, seed, 14)

\* line 586: random.choice of an empty list raises IndexError
topup_raises(fields, seed) ==
    topup_strategy(seed) = "info_based" /\ fields = <<>>

\* lines 581-597: what one pass of the for loop adds to batch_passwords
topup_candidates(info, fields, seed) ==
    LET strategy == topup_strategy(seed)
    IN  IF strategy = "info_based"
        THEN generate_password_variations(
                 info, random_choice(fields, seed, 15),
                 random_randint(10, 18, seed, 16), seed)
        ELSE IF strategy = "random_enhanced"
        THEN <<generate_random_enhanced_password(random_randint(12, 20, seed, 17), seed)>>
        ELSE generate_password_variations(
                 info,
                 flatten(sample_from(fields, Min(3, Len(fields)), seed, 18)),
                 random_randint(14, 20, seed, 19), seed)

(***************************************************************************)
(* The session: PasswordGenerator.__init__, ask_questions and the menu's   *)
(* option 1.                                                               *)
(***************************************************************************)
MaxGenerations == 2
MaxBatches == 3

\* lines 224-226, before any question was asked
SessionStart ==
    /\ pc = "menu"
    /\ passwords = <<>>
    /\ user_info = <<>>
    /\ info_list = <<>>
    /\ requested_count = 0
    /\ generated_count = 0
    /\ batch_size = 0
    /\ batch_passwords = <<>>
    /\ iter = 0
    /\ natural = <<>>
    /\ batches = 0
    /\ generations = 0
    /\ stdin = <<>>
    /\ files = <<>>
    /\ exit_code = <<>>
    /\ screen = show("")

\* no session runs while a method is called on its own
SessionIdle == program = "CybPss" /\ hashseed = 0 /\ SessionStart

\* mutant: the answers are stored as they were given
ask_questions_unclamped(answers) ==
    [k \in DOMAIN answers \ {"confirm"} |-> answers[k]]

\* lines 326-399: the profile that the answers leave in self.user_info; every
\* answer is what get_user_input returned, confirm what input().lower() gave
\* (the two Arabic literals of line 345 are written in Latin letters)
ask_questions(answers) ==
    LET asked == answers.password_count
        at_least_1 == IF asked < 1 THEN 1 ELSE asked
        password_count ==
            IF at_least_1 > 1000 /\ answers.confirm \notin {"y", "yes", "na'am", "nun"}
            THEN 100 ELSE at_least_1
    IN  [password_count |-> password_count,
         name |-> answers.name,
         nickname |-> answers.nickname,
         birth_year |-> answers.birth_year,
         birth_month |-> IF 1 <= answers.birth_month /\ answers.birth_month <= 12
                         THEN answers.birth_month ELSE 1,
         birth_day |-> IF 1 <= answers.birth_day /\ answers.birth_day <= 31
                       THEN answers.birth_day ELSE 1,
         favorite_color |-> answers.favorite_color,
         favorite_animal |-> answers.favorite_animal,
         hobby |-> answers.hobby,
         favorite_number |-> answers.favorite_number,
         city |-> answers.city,
         country |-> answers.country,
         favorite_food |-> answers.favorite_food,
         favorite_sport |-> answers.favorite_sport,
         favorite_movie |-> answers.favorite_movie,
         favorite_music |-> answers.favorite_music,
         profession |-> answers.profession,
         favorite_season |-> answers.favorite_season,
         pet_name |-> IF str_lower(answers.pet_name) = <<"n","o","n","e">>
                      THEN <<>> ELSE answers.pet_name]

\* src/password_generator.py lines 48-64
basic_ask_questions(answers) ==
    [name |-> answers.name,
     birth_year |-> answers.birth_year,
     favorite_color |-> answers.favorite_color,
     favorite_animal |-> answers.favorite_animal,
     hobby |-> answers.hobby,
     favorite_number |-> answers.favorite_number,
     city |-> answers.city]

\* src/password_generator.py lines 108-135
basic_generate_passwords(pool, info, seed, hash) ==
    LET fields == <<info.name, info.favorite_color, info.favorite_animal,
                    info.hobby, info.city>>
        per_field == flatten([i \in 1..5 |->
                        basic_password_variations(info, fields[i], 12, call_seed(seed, i))])
        combined_info == flatten([i \in 1..5 |-> clean(fields[i])])
        extended == pool \o per_field
                    \o basic_password_variations(info, combined_info, 16, call_seed(seed, 6))
    IN  random_shuffle(list_set(extended, hash), seed, 21)

(***************************************************************************)
(* The answers given to ask_questions: a profile whose fields are all one  *)
(* long text (its candidates need no random padding, so the natural pool   *)
(* is small) and, for src/password_generator.py, also a profile of short,  *)
(* different fields.                                                       *)
(***************************************************************************)
LongText ==
    <<"a","b","c","d","e","f","g","h","i","j","k","l","m","n","o","p","q","r","s","t">>

UniformTexts ==
    [name |-> LongText, nickname |-> LongText, favorite_color |-> LongText,
     favorite_animal |-> LongText, hobby |-> LongText, city |-> LongText,
     country |-> LongText, favorite_food |-> LongText, favorite_sport |-> LongText,
     favorite_movie |-> LongText, favorite_music |-> LongText,
     profession |-> LongText, favorite_season |-> LongText,
     pet_name |-> <<"N","o","n","e">>]

JohnTexts ==
    [name |-> <<"J","o","h","n">>, nickname |-> <<"J","o">>,
     favorite_color |-> <<"b","l","u","e">>,
     favorite_animal |-> <<"t","i","g","e","r">>,
     hobby |-> <<"r","e","a","d","i","n","g">>,
     city |-> <<"N","e","w"," ","Y","o","r","k">>,
     country |-> <<"U","S","A">>, favorite_food |-> <<"p","i","z","z","a">>,
     favorite_sport |-> <<"g","o","l","f">>, favorite_movie |-> <<"A","l","i","e","n">>,
     favorite_music |-> <<"j","a","z","z">>, profession |-> <<"n","u","r","s","e">>,
     favorite_season |-> <<"f","a","l","l">>, pet_name |-> <<"R","e","x">>]

\* counts below 1, below, at and above the size of the small natural pool
Counts == {0, 3, 16, 18}

Numbers ==
    [confirm |-> "y", birth_year |-> 1990, birth_month |-> 13, birth_day |-> 5,
     favorite_number |-> 7]

\* what the user of src/CybPss.py answers
Answers == {[password_count |-> n] @@ Numbers @@ UniformTexts : n \in Counts}

\* what the user of src/password_generator.py answers
BasicAnswers == {Numbers @@ t : t \in {UniformTexts, JohnTexts}}

(***************************************************************************)
(* The session's steps.  Option 1 of the menu asks the questions and runs  *)
(* generate_passwords; the top-up loop of lines 574-615 is taken one pass  *)
(* of its for loop at a time.                                              *)
(***************************************************************************)
InitSession ==
    /\ call = NoCall
    /\ result = NoResult
    /\ program \in {"CybPss", "password_generator"}
    /\ hashseed \in Seeds
    /\ SessionStart

\* lines 874-876 with 326-399 and 492-572: the questions, the natural
\* candidates, then the cut to the requested count or the entry of the loop
GenerateFrom(answered) ==
    /\ program = "CybPss"
    /\ pc = "menu"
    /\ generations < MaxGenerations
    /\ \E answers \in answered, seed \in Seeds :
        \E pool \in {natural_pool(passwords, ask_questions(answers), seed, hashseed)} :
        LET info == ask_questions(answers)
            requested == requested_count_of(info)
        IN  /\ user_info' = info
            /\ natural' = pool
            /\ batches' = 0
            /\ generations' = generations + 1
            /\ IF Len(pool) > requested
               THEN /\ passwords' = limit_to(pool, requested)
                    /\ pc' = "menu"
                    /\ UNCHANGED loopVars
               ELSE IF Len(pool) < requested
               THEN /\ passwords' = pool
                    /\ pc' = "topup"
                    /\ info_list' = info_list_of(info)
                    /\ requested_count' = requested
                    /\ batch_size' = Min(100, requested - Len(pool))
                    /\ generated_count' = Len(pool)
                    /\ batch_passwords' = <<>>
                    /\ iter' = 0
               ELSE /\ passwords' = pool
                    /\ pc' = "menu"
                    /\ UNCHANGED loopVars
    /\ UNCHANGED <<callVars, program, hashseed>>

\* option 1 as the user of Answers takes it
Generate == GenerateFrom(Answers) /\ UNCHANGED ioVars

\* lines 577-599: one pass of the for loop; the IndexError of line 586
\* leaves generate_passwords, which catches nothing
TopUpIteration ==
    /\ pc = "topup"
    /\ iter < batch_size
    /\ generated_count < requested_count
    /\ \E seed \in Seeds :
        IF topup_raises(info_list, call_seed(seed, iter + 1))
        THEN /\ pc' = "raised"
             /\ UNCHANGED <<batch_passwords, generated_count, iter>>
        ELSE /\ batch_passwords' = batch_passwords
                    \o topup_candidates(user_info, info_list, call_seed(seed, iter + 1))
             /\ generated_count' = generated_count + 1
             /\ iter' = iter + 1
             /\ pc' = pc
    /\ UNCHANGED <<callVars, program, passwords, user_info, info_list,
                   requested_count, batch_size, natural, batches, generations,
                   hashseed, ioVars>>

\* lines 601-618: the batch joins the pool and the duplicates go; the loop
\* goes on while the pool is short, else the pool is cut to the count
TopUpEndBatch ==
    /\ pc = "topup"
    /\ iter >= batch_size \/ generated_count >= requested_count
    /\ \E merged \in {list_set(passwords \o batch_passwords, hashseed)} :
            IF Len(merged) >= requested_count
            THEN /\ passwords' = limit_to(merged, requested_count)
                 /\ pc' = "menu"
                 /\ info_list' = <<>>
                 /\ requested_count' = 0
                 /\ generated_count' = 0
                 /\ batch_size' = 0
            ELSE /\ passwords' = merged
                 /\ pc' = "topup"
                 /\ generated_count' = Len(merged)
                 /\ UNCHANGED <<info_list, requested_count, batch_size>>
    /\ batch_passwords' = <<>>
    /\ iter' = 0
    /\ batches' = Min(batches + 1, MaxBatches)
    /\ UNCHANGED <<callVars, program, user_info, natural, generations, hashseed,
                   ioVars>>

\* src/password_generator.py lines 209-211: option 1 of its menu
GenerateBasic ==
    /\ program = "password_generator"
    /\ pc = "menu"
    /\ generations < MaxGenerations
    /\ \E answers \in BasicAnswers, seed \in Seeds :
        LET info == basic_ask_questions(answers)
        IN  /\ user_info' = info
            /\ passwords' = basic_generate_passwords(passwords, info, seed, hashseed)
    /\ generations' = generations + 1
    /\ UNCHANGED <<callVars, program, pc, loopVars, natural, batches, hashseed,
                   ioVars>>

Next ==
    \/ Generate
    \/ TopUpIteration
    \/ TopUpEndBatch
    \/ GenerateBasic

Spec == InitSession /\ [][Next]_vars

\* the steps of TopUpEndBatch, told by what they do to iter (a batch has at
\* least one pass): Next allows no other step where the for loop has ended
TopUpBatchEnds ==
    /\ pc = "topup"
    /\ iter >= batch_size \/ generated_count >= requested_count
    /\ iter' = 0

\* the interpreter runs a loop on while it can: a pass of the for loop that
\* can run does run, and so does the end of a batch.  Nothing is assumed of
\* the values that the random module hands out
FairSpec ==
    /\ Spec
    /\ WF_vars(TopUpIteration)
    /\ WF_iter(TopUpBatchEnds)

(***************************************************************************)
(* The aggregator's claims.                                                *)
(***************************************************************************)
Completed == pc = "menu" /\ generations > 0

NoDuplicates(pool) == \A i, j \in 1..Len(pool) : pool[i] = pool[j] => i = j

\* C2: whenever generate_passwords has completed, in either program, on the
\* truncate path, on the top-up path and after a repeated generation, no two
\* entries of self.passwords are equal
C2_NoDuplicates == Completed => NoDuplicates(passwords)

\* a second generation completed through the top-up loop, over the pool the
\* first one left
C2_Witness ==
    /\ program = "CybPss"
    /\ Completed
    /\ generations = 2
    /\ batches > 0
    /\ Len(passwords) > Len(natural)

\* C3: when the requested count is at most the size of the pool after the
\* duplicates went and the list was shuffled, generate_passwords leaves
\* exactly that many candidates, the first ones of that shuffled pool
C3_FirstOfShuffled ==
    (program = "CybPss" /\ Completed
        /\ requested_count_of(user_info) <= Len(natural))
    => /\ Len(passwords) = requested_count_of(user_info)
       /\ passwords = SubSeq(natural, 1, requested_count_of(user_info))

\* three candidates were asked for and cut from a larger shuffled pool
C3_Witness ==
    /\ program = "CybPss"
    /\ Completed
    /\ requested_count_of(user_info) = 3
    /\ Len(natural) > 3
    /\ passwords = SubSeq(natural, 1, 3)
    /\ batches = 0

\* C4: when the requested count exceeds the size of the natural pool, the
\* top-up loop is left, and the pool then has exactly the requested count
C4_TopUpCompletes ==
    /\ [](program = "CybPss" /\ Completed /\ batches > 0
            => Len(passwords) = requested_count_of(user_info))
    /\ (pc = "topup") ~> (pc = "menu" /\ Len(passwords) = requested_count_of(user_info))

\* C5: the batches that the top-up loop runs are bounded by a fixed cap: once
\* MaxBatches of them have run, the loop has stopped (batches stops counting
\* at MaxBatches, which stands for the cap)
C5_BatchesCapped == batches = MaxBatches => pc = "menu"

\* C19: every generation fills a pool created empty: what a completed
\* generation built (the shuffled pool of src/CybPss.py before its cut, the
\* pool of src/password_generator.py) is what generate_passwords builds from
\* an empty self.passwords for the profile at hand, the second generation of
\* a session included
C19_PoolCreatedEmpty ==
    Completed =>
        \E seed \in Seeds :
            IF program = "CybPss"
            THEN natural = natural_pool(<<>>, user_info, seed, hashseed)
            ELSE passwords = basic_generate_passwords(<<>>, user_info, seed, hashseed)

Lengths(pool) == {Len(pool[i]) : i \in 1..Len(pool)}

\* C30: when generate_passwords of src/CybPss.py has completed, every
\* candidate of the pool has 12, 14 or 16 characters if the generation
\* needed no top-up, and 10 to 20 characters if it did
C30_CandidateLengths ==
    (program = "CybPss" /\ Completed) =>
        /\ Lengths(passwords) \subseteq 10..20
        /\ batches = 0 => Lengths(passwords) \subseteq {12, 14, 16}

(***************************************************************************)
(* generate_passwords on profiles with few text fields.  The questions     *)
(* leave only pet_name empty (lines 392-394: get_user_input accepts no     *)
(* empty line), so the other fields are empty only in a profile that the   *)
(* caller assigned to user_info, as src/test_cybpss.py lines 15-26 do.     *)
(***************************************************************************)
text_keys ==
    {"name", "nickname", "favorite_color", "favorite_animal", "hobby", "city",
     "country", "favorite_food", "favorite_sport", "favorite_movie",
     "favorite_music", "profession", "favorite_season", "pet_name"}

\* a profile whose text fields are those of texts and empty otherwise
sparse_profile(texts, count) ==
    [password_count |-> count, birth_year |-> 1990, birth_month |-> 1,
     birth_day |-> 5, favorite_number |-> 7]
    @@ texts @@ [k \in text_keys |-> <<>>]

\* no text field; one; one among fields of spaces and tabs
SparseTexts ==
    { <<>>,
      [name |-> <<"A", "l">>],
      [name |-> <<" ">>, nickname |-> <<"\t">>, hobby |-> <<" ", "\t">>,
       country |-> <<"x", " ", "y">>] }

\* counts below and above the 32 candidates of the four birthday texts
SparseCounts == {20, 33, 34, 49, 50}

SparseProfiles == {sparse_profile(t, n) : t \in SparseTexts, n \in SparseCounts}

\* the pet's name as typed: 'none' in three letter cases, and a name
PetNames == { <<"n","o","n","e">>, <<"N","O","N","E">>, <<"n","O","n","E">>,
              <<"R","e","x">> }

PetAnswers ==
    {[password_count |-> 18, pet_name |-> p] @@ Numbers @@ UniformTexts : p \in PetNames}

DirectCalls ==
    {[op |-> "generate_passwords", user_info |-> u] : u \in SparseProfiles}
    \cup {[op |-> "option 1", answers |-> a] : a \in PetAnswers}

\* a generator made at line 224, its user_info assigned or still to be asked
InitDirect ==
    /\ call \in DirectCalls
    /\ result = NoResult
    /\ program = "CybPss"
    /\ hashseed = 0
    /\ pc = IF call.op = "option 1" THEN "menu" ELSE "assigned"
    /\ passwords = <<>>
    /\ user_info = IF call.op = "option 1" THEN <<>> ELSE call.user_info
    /\ info_list = <<>>
    /\ requested_count = 0
    /\ generated_count = 0
    /\ batch_size = 0
    /\ batch_passwords = <<>>
    /\ iter = 0
    /\ natural = <<>>
    /\ batches = 0
    /\ generations = 0
    /\ stdin = <<>>
    /\ files = <<>>
    /\ exit_code = <<>>
    /\ screen = show("")

\* lines 492-572 on the assigned profile: the natural candidates, then the
\* cut to the requested count or the entry of the loop
GenerateAssigned ==
    /\ call.op = "generate_passwords"
    /\ pc = "assigned"
    /\ \E seed \in Seeds :
        \E pool \in {natural_pool(passwords, user_info, seed, hashseed)} :
        LET requested == requested_count_of(user_info)
        IN  /\ natural' = pool
            /\ batches' = 0
            /\ generations' = generations + 1
            /\ IF Len(pool) > requested
               THEN /\ passwords' = limit_to(pool, requested)
                    /\ pc' = "menu"
                    /\ UNCHANGED loopVars
               ELSE IF Len(pool) < requested
               THEN /\ passwords' = pool
                    /\ pc' = "topup"
                    /\ info_list' = info_list_of(user_info)
                    /\ requested_count' = requested
                    /\ batch_size' = Min(100, requested - Len(pool))
                    /\ generated_count' = Len(pool)
                    /\ batch_passwords' = <<>>
                    /\ iter' = 0
               ELSE /\ passwords' = pool
                    /\ pc' = "menu"
                    /\ UNCHANGED loopVars
    /\ UNCHANGED <<callVars, program, user_info, hashseed, ioVars>>

\* option 1 of the menu, once, with the answers of the call
GenerateAsked ==
    /\ call.op = "option 1"
    /\ generations = 0
    /\ GenerateFrom({call.answers})
    /\ UNCHANGED ioVars

NextDirect ==
    \/ GenerateAssigned
    \/ GenerateAsked
    \/ TopUpIteration
    \/ TopUpEndBatch

SpecDirect == InitDirect /\ [][NextDirect]_vars

\* C21: generate_passwords on a profile with no text field, or with one,
\* and a count above the natural pool: no pass of the top-up raises, and
\* the completed pool has exactly the requested count of candidates
C21_TopUpCompletes ==
    call.op = "generate_passwords" =>
        /\ pc # "raised"
        /\ (pc = "menu" /\ generations > 0
                /\ Len(natural) < requested_count_of(user_info)) =>
               Len(passwords) = requested_count_of(user_info)

FieldOrder ==
    << "name", "nickname", "favorite_color", "favorite_animal", "hobby", "city",
       "country", "favorite_food", "favorite_sport", "favorite_movie",
       "favorite_music", "profession", "favorite_season", "pet_name" >>

ClaimBlank(text) == \A i \in 1..Len(text) : text[i] \in {" ", "\t"}

ClaimFields(info) ==
    SelectSeq([i \in 1..Len(FieldOrder) |-> info[FieldOrder[i]]],
              LAMBDA text : ~ClaimBlank(text))

\* C22: a pet name typed as 'none' in any letter case is stored as the empty
\* text; the natural candidates are the per-field variations and the
\* groups of three of the fields that are neither empty nor whitespace-only
\* (with the birthday texts), and the top-up loop draws from those fields
C22_OnlyNonEmptyFields ==
    generations > 0 =>
        /\ (call.op = "option 1"
                /\ str_lower(call.answers.pet_name) = <<"n","o","n","e">>) =>
               user_info.pet_name = <<>>
        /\ \E seed \in Seeds :
               natural = random_shuffle(
                   list_set(field_variations(user_info, ClaimFields(user_info), seed)
                            \o group_variations(user_info, ClaimFields(user_info), seed)
                            \o birthday_variations(user_info, seed),
                            hashseed),
                   seed, 21)
        /\ pc = "topup" => info_list = ClaimFields(user_info)

\* the top-up loop runs on a profile with a field of spaces, a field of a
\* tab and one field of text
C22_Witness ==
    /\ pc = "topup"
    /\ call.op = "generate_passwords"
    /\ user_info.name = <<" ">>
    /\ user_info.nickname = <<"\t">>
    /\ info_list = << <<"x", " ", "y">> >>
    /\ batch_passwords # <<>>

(***************************************************************************)
(* The analyzer's inputs: passwords put together from pieces that differ   *)
(* in length, character classes and common patterns.                       *)
(***************************************************************************)
MaxChunks == 3
MaxScoreArg == 10

Chunks ==
    { <<"a","b","c">>, <<"A","B","C">>, <<"1","2","3">>, <<"q","w","e">>,
      <<"p","a","s","s","w","o","r","d">>, <<"a","d","m","i","n">>,
      <<"x","y","z","w">>, <<"X","Y","Z","W">>, <<"4","5","6","7">>,
      <<"!","?","{","_">>, <<"~"," ">>, <<"X","y","7","!">> }

RECURSIVE Concats(_)
Concats(n) ==
    IF n = 0 THEN {<<>>}
    ELSE LET shorter == Concats(n - 1)
         IN  shorter \cup {p \o c : p \in shorter, c \in Chunks}

PasswordInputs == Concats(MaxChunks)

\* passwords of 12 and of 16 characters to compare others with
Baselines ==
    LET lower4 == <<"x","y","z","w">>
        upper4 == <<"X","Y","Z","W">>
        digit4 == <<"4","5","6","7">>
        mixed4 == <<"X","y","7","!">>
        none4 == <<"~"," ","~"," ">>
    IN  { lower4 \o lower4 \o lower4,
          lower4 \o upper4 \o lower4,
          lower4 \o upper4 \o digit4,
          mixed4 \o mixed4 \o mixed4,
          none4 \o none4 \o none4,
          <<"a","b","c">> \o lower4 \o <<"a","d","m","i","n">>,
          <<"p","a","s","s","w","o","r","d">> \o mixed4,
          <<"A","B","C">> \o <<"1","2","3">> \o upper4 \o <<"~"," ">>,
          lower4 \o lower4 \o lower4 \o lower4,
          mixed4 \o mixed4 \o mixed4 \o mixed4 }

ScoreArgs == (-MaxScoreArg)..MaxScoreArg

AnalyzerCalls ==
    {[op |-> "analyze_strength", passwords |-> <<p>>, score |-> 0] : p \in PasswordInputs}
    \cup {[op |-> "get_strength_level", passwords |-> <<>>, score |-> s] : s \in ScoreArgs}
    \cup UNION {{[op |-> "analyze_passwords", passwords |-> <<p, q>>, score |-> 0] :
                    q \in {y \in Baselines : Len(y) = Len(p)}} :
                 p \in {x \in PasswordInputs : Len(x) >= 12}}

InitAnalyze ==
    /\ call \in AnalyzerCalls
    /\ result = NoResult
    /\ SessionIdle

AnalyzeStrength ==
    /\ call.op = "analyze_strength"
    /\ ~result.done
    /\ result' = [done |-> TRUE, value |-> analyze_strength(call.passwords[1])]
    /\ UNCHANGED <<call, sessionVars>>

GetStrengthLevel ==
    /\ call.op = "get_strength_level"
    /\ ~result.done
    /\ result' = [done |-> TRUE, value |-> get_strength_level(call.score)]
    /\ UNCHANGED <<call, sessionVars>>

AnalyzePasswords ==
    /\ call.op = "analyze_passwords"
    /\ ~result.done
    /\ result' = [done |-> TRUE, value |-> analyze_passwords(call.passwords)]
    /\ UNCHANGED <<call, sessionVars>>

NextAnalyze ==
    \/ AnalyzeStrength
    \/ GetStrengthLevel
    \/ AnalyzePasswords

SpecAnalyze == InitAnalyze /\ [][NextAnalyze]_vars

(***************************************************************************)
(* Claims about the analyzer, checked under SpecAnalyze.                   *)
(***************************************************************************)
\* The statement's own reading of a password, independent of analyze_strength.
ClaimClasses(p) ==
    {k \in {"upper", "lower", "digit", "special"} :
        \E i \in 1..Len(p) :
            \/ k = "upper" /\ p[i] \in UpperSet
            \/ k = "lower" /\ p[i] \in LowerSet
            \/ k = "digit" /\ p[i] \in DigitSet
            \/ k = "special" /\ p[i] \in SpecialSet}

ClaimPatterns ==
    { <<"1","2","3">>, <<"a","b","c">>, <<"q","w","e">>,
      <<"p","a","s","s","w","o","r","d">>, <<"a","d","m","i","n">> }

ClaimHasPattern(p) ==
    \E pat \in ClaimPatterns : \E i \in 1..Len(p) :
        /\ i + Len(pat) - 1 <= Len(p)
        /\ \A k \in 1..Len(pat) : char_lower(p[i + k - 1]) = pat[k]

ClaimScore(p) ==
    (IF Len(p) >= 12 THEN 2 ELSE IF Len(p) >= 8 THEN 1 ELSE 0)
    + Cardinality(ClaimClasses(p))
    - (IF ClaimHasPattern(p) THEN 1 ELSE 0)

ClaimAlphabet(p) ==
    (IF "lower" \in ClaimClasses(p) THEN 26 ELSE 0)
    + (IF "upper" \in ClaimClasses(p) THEN 26 ELSE 0)
    + (IF "digit" \in ClaimClasses(p) THEN 10 ELSE 0)
    + (IF "special" \in ClaimClasses(p) THEN 32 ELSE 0)

\* A report has been returned for every password of the call.
Analyzed ==
    /\ call.op \in {"analyze_strength", "analyze_passwords"}
    /\ result.done

\* The reports of the call, one for each of its passwords.
Reports ==
    IF call.op = "analyze_strength" THEN <<result.value>> ELSE result.value.analyses

\* C6: the score of analyze_strength is the length bonus (2 from 12 characters,
\* 1 from 8) plus the number of character classes present, minus 1 when one of
\* "123", "abc", "qwe", "password", "admin" occurs in the lowercased password.
C6_ScoreFormula ==
    Analyzed =>
        \A i \in 1..Len(call.passwords) :
            Reports[i].score = ClaimScore(call.passwords[i])

\* a password of 12 characters with all four classes and a common pattern: 2 + 4 - 1
C6_Witness ==
    /\ call.op = "analyze_strength"
    /\ result.done
    /\ Len(call.passwords[1]) = 12
    /\ Cardinality(ClaimClasses(call.passwords[1])) = 4
    /\ ClaimHasPattern(call.passwords[1])
    /\ Reports[1].score = 5

\* C7: get_strength_level gives every integer score one label: Weak up to 2,
\* Medium for 3 and 4, Strong for 5 and 6, Very Strong above 6.
C7_LevelThresholds ==
    (call.op = "get_strength_level" /\ result.done) =>
        /\ result.value \in {"Weak", "Medium", "Strong", "Very Strong"}
        /\ (result.value = "Weak") = (call.score <= 2)
        /\ (result.value = "Medium") = (call.score \in 3..4)
        /\ (result.value = "Strong") = (call.score \in 5..6)
        /\ (result.value = "Very Strong") = (call.score > 6)

\* a score on a threshold, and one above the analyzer's own range
C7_Witness ==
    /\ call.op = "get_strength_level"
    /\ result.done
    /\ call.score = 6
    /\ result.value = "Strong"

\* C8: of two passwords of the same length >= 12, the one with fewer character
\* classes never scores more than the other, also when only one of them holds
\* a common pattern.
C8_MonotoneInClasses ==
    (call.op = "analyze_passwords" /\ result.done) =>
        \A i, j \in 1..Len(call.passwords) :
            ( /\ Len(call.passwords[i]) = Len(call.passwords[j])
              /\ Len(call.passwords[i]) >= 12
              /\ Cardinality(ClaimClasses(call.passwords[i]))
                    < Cardinality(ClaimClasses(call.passwords[j])) )
            => Reports[i].score <= Reports[j].score

\* three classes without a pattern against four classes with one: both score 5
C8_Witness ==
    /\ call.op = "analyze_passwords"
    /\ result.done
    /\ Len(call.passwords[1]) = Len(call.passwords[2])
    /\ Len(call.passwords[1]) >= 12
    /\ Cardinality(ClaimClasses(call.passwords[1])) = 3
    /\ Cardinality(ClaimClasses(call.passwords[2])) = 4
    /\ ~ClaimHasPattern(call.passwords[1])
    /\ ClaimHasPattern(call.passwords[2])
    /\ Reports[1].score = Reports[2].score

\* C9: the score of analyze_strength is an integer from 0 to 8.
C9_ScoreRange ==
    Analyzed =>
        \A i \in 1..Len(call.passwords) : Reports[i].score \in 0..8

\* the least score: a short password of one class that holds a common pattern
C9_Witness ==
    /\ call.op = "analyze_strength"
    /\ result.done
    /\ ClaimHasPattern(call.passwords[1])
    /\ Len(call.passwords[1]) < 8
    /\ Reports[1].score = 0

\* C10: the entropy of analyze_strength is length x sqrt(S), S the sum of 26
\* (lowercase present), 26 (uppercase), 10 (digit) and 32 (special); it is 0
\* when no class is present.
C10_EntropyFormula ==
    Analyzed =>
        \A i \in 1..Len(call.passwords) :
            /\ Reports[i].entropy
                  = Len(call.passwords[i]) * Sqrt1000[ClaimAlphabet(call.passwords[i])]
            /\ ClaimClasses(call.passwords[i]) = {} => Reports[i].entropy = 0

\* all four classes in 12 characters: 12 x sqrt(94)
C10_Witness ==
    /\ call.op = "analyze_strength"
    /\ result.done
    /\ Len(call.passwords[1]) = 12
    /\ ClaimAlphabet(call.passwords[1]) = 94
    /\ Reports[1].entropy = 12 * 9695

\* C27: the score of analyze_strength never exceeds 6, so the label that
\* get_strength_level gives to the score of a password is Weak, Medium or
\* Strong and never Very Strong
C27_NeverVeryStrong ==
    Analyzed =>
        \A i \in 1..Len(call.passwords) :
            /\ Reports[i].score <= 6
            /\ get_strength_level(Reports[i].score) \in {"Weak", "Medium", "Strong"}

\* the best a password can do: 16 characters, all four classes, no common
\* pattern, score 6 and the label Strong
C27_Witness ==
    /\ call.op = "analyze_passwords"
    /\ result.done
    /\ Len(call.passwords[2]) = 16
    /\ Cardinality(ClaimClasses(call.passwords[2])) = 4
    /\ ~ClaimHasPattern(call.passwords[2])
    /\ Reports[2].score = 6
    /\ get_strength_level(Reports[2].score) = "Strong"

\* the recommendation that each condition of the statement calls for
ClaimAdvice(p) ==
    (IF ClaimHasPattern(p) THEN {"Avoid common patterns"} ELSE {})
    \cup (IF "upper" \notin ClaimClasses(p) THEN {"Add uppercase letters"} ELSE {})
    \cup (IF "lower" \notin ClaimClasses(p) THEN {"Add lowercase letters"} ELSE {})
    \cup (IF "digit" \notin ClaimClasses(p) THEN {"Add numbers"} ELSE {})
    \cup (IF "special" \notin ClaimClasses(p) THEN {"Add special characters"} ELSE {})
    \cup (IF Len(p) < 12 THEN {"Use at least 12 characters"} ELSE {})

\* C28: the recommendations of analyze_strength are empty exactly when the
\* score is 6, that is when the password has 12 characters or more, all four
\* classes and no common pattern; each recommendation is in the list, once,
\* exactly when its condition fails
C28_RecommendationsIffBelowSix ==
    Analyzed =>
        \A i \in 1..Len(call.passwords) :
            LET p == call.passwords[i]
                given == Reports[i].recommendations
            IN  /\ (given = <<>>) = (Reports[i].score = 6)
                /\ (given = <<>>) = (/\ Len(p) >= 12
                                     /\ Cardinality(ClaimClasses(p)) = 4
                                     /\ ~ClaimHasPattern(p))
                /\ Range(given) = ClaimAdvice(p)
                /\ Len(given) = Cardinality(ClaimAdvice(p))

\* a password of 12 characters with nothing to improve
C28_Witness ==
    /\ call.op = "analyze_strength"
    /\ result.done
    /\ Reports[1].score = 6
    /\ Reports[1].recommendations = <<>>
    /\ Len(call.passwords[1]) = 12

(***************************************************************************)
(* Calls of generate_password_variations: base texts shorter and longer    *)
(* than the length asked for, with spaces and capitals.                    *)
(***************************************************************************)
MaxLength == 16

BaseTexts ==
    { <<"a">>,
      <<"J","o"," ","h">>,
      <<"t","i","g","e","r">>,
      <<"N","e","w"," ","Y","o","r","k">>,
      <<"r","e","a","d","i","n","g","b","o","o","k","s","1">>,
      <<"a","b","c","d","e","f","g","h","i","j","k","l","m","n","o","p","q","r","s","t">>,
      <<" ">>,
      <<>> }

\* the numbers of self.user_info that the variations read
BirthProfiles ==
    { [birth_year |-> 1990, birth_month |-> 1, birth_day |-> 1, favorite_number |-> 7],
      [birth_year |-> 1985, birth_month |-> 12, birth_day |-> 31, favorite_number |-> 42],
      [birth_year |-> 5, birth_month |-> 7, birth_day |-> 9, favorite_number |-> -3] }

VariationCalls ==
    {[op |-> o, info |-> u, base_info |-> b, length |-> n, seed |-> r] :
        o \in {"generate_password_variations", "basic_password_variations"},
        u \in BirthProfiles, b \in BaseTexts, n \in 1..MaxLength, r \in Seeds}

InitVariations ==
    /\ call \in VariationCalls
    /\ result = NoResult
    /\ SessionIdle

GeneratePasswordVariations ==
    /\ call.op = "generate_password_variations"
    /\ ~result.done
    /\ result' = [done |-> TRUE,
                  value |-> generate_password_variations(
                                call.info, call.base_info, call.length, call.seed)]
    /\ UNCHANGED <<call, sessionVars>>

BasicPasswordVariations ==
    /\ call.op = "basic_password_variations"
    /\ ~result.done
    /\ result' = [done |-> TRUE,
                  value |-> basic_password_variations(
                                call.info, call.base_info, call.length, call.seed)]
    /\ UNCHANGED <<call, sessionVars>>

NextVariations ==
    \/ GeneratePasswordVariations
    \/ BasicPasswordVariations

SpecVariations == InitVariations /\ [][NextVariations]_vars

\* C1: for a base text that is not empty once its spaces are removed and a
\* length L >= 1, every candidate of generate_password_variations has exactly
\* L characters, the alternating-case one too when the text is longer than L.
C1_ExactLength ==
    ( /\ call.op \in {"generate_password_variations", "basic_password_variations"}
      /\ result.done
      /\ remove_spaces(call.base_info) # <<>>
      /\ call.length >= 1 )
    => /\ Len(result.value) = IF call.op = "generate_password_variations" THEN 8 ELSE 5
       /\ \A i \in 1..Len(result.value) : Len(result.value[i]) = call.length

\* the alternating-case candidate of a text longer than L is cut to L, and a
\* candidate of a shorter text is filled up to L
C1_Witness ==
    /\ call.op = "generate_password_variations"
    /\ result.done
    /\ Len(remove_spaces(call.base_info)) > call.length
    /\ call.length = 12
    /\ Len(result.value[4]) = 12
    /\ result.value[4] = str_prefix(alternate_case(clean(call.base_info)), 12)

\* The statement's own reading of a call: the cleaned text, the numbers as
\* they are written, and s[:n]
ClaimClean(text) ==
    LET kept == SelectSeq(text, LAMBDA ch : ch # " ")
    IN  [i \in 1..Len(kept) |-> char_lower(kept[i])]

ClaimTake(s, n) == SubSeq(s, 1, IF n < Len(s) THEN n ELSE Len(s))
ClaimDrop(s, n) == SubSeq(s, (IF n < Len(s) THEN n ELSE Len(s)) + 1, Len(s))

\* s is t as far as t goes
ClaimBegins(s, t) == Len(t) <= Len(s) /\ SubSeq(s, 1, Len(t)) = t

ClaimTwoDigits(n) == IF n < 10 THEN <<"0">> \o nat_str(n) ELSE nat_str(n)

ClaimAlternated(c) ==
    [i \in 1..Len(c) |-> IF i % 2 = 1 THEN char_upper(c[i]) ELSE char_lower(c[i])]

\* a call of generate_password_variations has returned
Varied == call.op = "generate_password_variations" /\ result.done

\* C23 as amended: every variation begins with the first L characters of its
\* transformation, random characters coming after it only.  With the
\* cleaned text c the transformation is c for (a), (b), (f) and (g); c with
\* its even indexes uppercased and its odd ones lowercased for (d); c with
\* the birth year after its first three characters (after all of c when c
\* is shorter) for (c); c with the favourite number at index len(c)//2 for
\* (e); and for (h) c with the 2-digit month after its first two characters
\* and the 2-digit day after its next two, as many of them as c has
C23_TransformationFirst ==
    (Varied /\ call.info.birth_month \in 1..12 /\ call.info.birth_day \in 1..31) =>
        LET c == ClaimClean(call.base_info)
            L == call.length
            v == result.value
            year == int_str(call.info.birth_year)
            number == int_str(call.info.favorite_number)
            month == ClaimTwoDigits(call.info.birth_month)
            day == ClaimTwoDigits(call.info.birth_day)
        IN  /\ \A k \in {1, 2, 6, 7} : ClaimBegins(v[k], ClaimTake(c, L))
            /\ ClaimBegins(v[4], ClaimTake(ClaimAlternated(c), L))
            /\ ClaimBegins(v[3], ClaimTake(ClaimTake(c, 3) \o year \o ClaimDrop(c, 3), L))
            /\ ClaimBegins(v[5], ClaimTake(ClaimTake(c, Len(c) \div 2) \o number
                                            \o ClaimDrop(c, Len(c) \div 2), L))
            /\ ClaimBegins(v[8], ClaimTake(ClaimTake(c, 2) \o month
                                            \o ClaimTake(ClaimDrop(c, 2), 2) \o day
                                            \o ClaimDrop(c, 4), L))

\* a text of five characters in candidates of 16: the year sits at index 3,
\* the number at index 2, the month at index 2 and the day at index 6
C23_Witness ==
    /\ Varied
    /\ call.base_info = <<"t","i","g","e","r">>
    /\ call.length = 16
    /\ call.info.birth_year = 1985
    /\ call.seed = 1
    /\ SubSeq(result.value[3], 1, 9) = <<"t","i","g","1","9","8","5","e","r">>
    /\ SubSeq(result.value[5], 1, 7) = <<"t","i","4","2","g","e","r">>
    /\ SubSeq(result.value[8], 1, 9) = <<"t","i","1","2","g","e","3","1","r">>

\* where t occurs in s, counted from 0
ClaimPlaces(s, t) == {i \in 0..(Len(s) - Len(t)) : SubSeq(s, i + 1, i + Len(t)) = t}

\* C23: every variation begins with the first L characters of its
\* transformation; (a), (b), (f) and (g) begin with c[:L], (d) with c[:L]
\* in alternating case, and where the candidate is long enough to hold
\* them, (c) has the birth year at index 3, (e) the favourite number at
\* index len(c)//2, and (h) the 2-digit month at index 2 and the 2-digit
\* day two characters after it
C23_FixedOffsets ==
    (Varied /\ call.info.birth_month \in 1..12 /\ call.info.birth_day \in 1..31
        /\ ClaimClean(call.base_info) # <<>>) =>
        LET c == ClaimClean(call.base_info)
            L == call.length
            v == result.value
            year == int_str(call.info.birth_year)
            number == int_str(call.info.favorite_number)
            month == ClaimTwoDigits(call.info.birth_month)
            day == ClaimTwoDigits(call.info.birth_day)
        IN  /\ \A k \in {1, 2, 6, 7} : ClaimBegins(v[k], ClaimTake(c, L))
            /\ ClaimBegins(v[4], ClaimTake(ClaimAlternated(c), L))
            /\ L >= 3 + Len(year) => 3 \in ClaimPlaces(v[3], year)
            /\ L >= Len(c) \div 2 + Len(number)
                  => (Len(c) \div 2) \in ClaimPlaces(v[5], number)
            /\ L >= 8 => (2 \in ClaimPlaces(v[8], month) /\ 6 \in ClaimPlaces(v[8], day))

\* C26: when the cleaned text c has at least L characters, variations (a),
\* (b), (f) and (g) are all c[:L], whatever the random stream gives, and
\* the eight candidates of the call are at most five different strings
C26_FourCoincide ==
    (Varied /\ Len(ClaimClean(call.base_info)) >= call.length) =>
        /\ \A k \in {1, 2, 6, 7} :
              result.value[k] = ClaimTake(ClaimClean(call.base_info), call.length)
        /\ Cardinality(Range(result.value)) <= 5

\* a text of 13 characters in candidates of 12, with a stream that varies:
\* exactly five different candidates
C26_Witness ==
    /\ Varied
    /\ Len(ClaimClean(call.base_info)) = 13
    /\ call.length = 12
    /\ call.seed = 2
    /\ result.value[1] = result.value[7]
    /\ Cardinality(Range(result.value)) = 5

(***************************************************************************)
(* ask_questions on its own: the count, the month and the day that the     *)
(* user gives are below, at and above the limits of lines 337-347 and      *)
(* 361-371.                                                                *)
(***************************************************************************)
CountAnswers == {-5, 0, 1, 25, 1000, 1001}
MonthAnswers == {-1, 0, 1, 12, 13}
DayAnswers == {0, 1, 31, 32}
ConfirmAnswers == {"y", "n"}

QuestionCalls ==
    {[op |-> "ask_questions",
      answers |-> [password_count |-> n, confirm |-> c, birth_month |-> m,
                   birth_day |-> d] @@ Numbers @@ UniformTexts] :
        n \in CountAnswers, c \in ConfirmAnswers, m \in MonthAnswers, d \in DayAnswers}

InitQuestions ==
    /\ call \in QuestionCalls
    /\ result = NoResult
    /\ SessionIdle

\* lines 326-399: the answers are read and self.user_info is filled
AskQuestions ==
    /\ call.op = "ask_questions"
    /\ ~result.done
    /\ user_info' = ask_questions(call.answers)
    /\ result' = [done |-> TRUE, value |-> <<>>]
    /\ UNCHANGED <<call, program, pc, passwords, loopVars, natural, batches,
                   generations, hashseed, ioVars>>

NextQuestions == AskQuestions

SpecQuestions == InitQuestions /\ [][NextQuestions]_vars

\* C17: when ask_questions has completed, the stored password_count is at
\* least 1, birth_month is within 1..12 and birth_day within 1..31; a month
\* or day given outside its range is stored as 1, and a count below 1 as 1
C17_ProfileInRange ==
    (call.op = "ask_questions" /\ result.done)
    => /\ user_info.password_count >= 1
       /\ user_info.birth_month \in 1..12
       /\ user_info.birth_day \in 1..31
       /\ call.answers.birth_month \notin 1..12 => user_info.birth_month = 1
       /\ call.answers.birth_day \notin 1..31 => user_info.birth_day = 1
       /\ call.answers.password_count < 1 => user_info.password_count = 1

\* a count below 1, month 13 and day 0 were given, and 1 was stored for each
C17_Witness ==
    /\ call.op = "ask_questions"
    /\ result.done
    /\ call.answers.password_count < 1
    /\ call.answers.birth_month = 13
    /\ call.answers.birth_day = 0
    /\ user_info.password_count = 1
    /\ user_info.birth_month = 1
    /\ user_info.birth_day = 1

(***************************************************************************)
(* get_user_input on its own (lines 308-324; the same loop is lines 31-46  *)
(* of src/password_generator.py): the user types one line after another    *)
(* until a line is accepted.                                               *)
(***************************************************************************)
MaxEntries == 3

\* str.strip()
str_strip(s) ==
    LET inked == {i \in 1..Len(s) : s[i] \notin whitespace}
    IN  IF inked = {} THEN <<>>
        ELSE SubSeq(s, CHOOSE i \in inked : \A j \in inked : i <= j,
                       CHOOSE i \in inked : \A j \in inked : i >= j)

\* what int(s) reads after an optional sign
unsigned(s) == IF s # <<>> /\ s[1] \in {"+", "-"} THEN Tail(s) ELSE s

\* whether int(s) accepts s: an optional sign, then digits, with single
\* underscores between digits
is_int_literal(s) ==
    LET body == unsigned(s)
    IN  /\ body # <<>>
        /\ \A i \in 1..Len(body) : isdigit(body[i]) \/ body[i] = "_"
        /\ body[1] # "_"
        /\ body[Len(body)] # "_"
        /\ \A i \in 1..(Len(body) - 1) : ~(body[i] = "_" /\ body[i + 1] = "_")

digit_value == [c \in DigitSet |-> (CHOOSE i \in 1..10 : digits[i] = c) - 1]

RECURSIVE digits_value(_, _)
digits_value(s, n) ==
    IF n = 0 THEN 0 ELSE 10 * digits_value(s, n - 1) + digit_value[s[n]]

\* int(s) of a string that int accepts
int_of(s) ==
    LET figures == SelectSeq(unsigned(s), isdigit)
        magnitude == digits_value(figures, Len(figures))
    IN  IF s[1] = "-" THEN 0 - magnitude ELSE magnitude

\* mutant: whatever line was typed is returned
get_user_input_unchecked(line, input_type) ==
    [returns |-> TRUE,
     value |-> IF input_type = "int"
               THEN (IF is_int_literal(str_strip(line)) THEN int_of(str_strip(line)) ELSE 0)
               ELSE line]

\* lines 311-321: one pass of the while loop over the line that input()
\* hands over: the value returned, or another pass
get_user_input(line, input_type) ==
    LET user_input == str_strip(line)
    IN  IF user_input = <<>> THEN [returns |-> FALSE, value |-> <<>>]
        ELSE IF input_type = "int"
        THEN (IF is_int_literal(user_input)
              THEN [returns |-> TRUE, value |-> int_of(user_input)]
              ELSE [returns |-> FALSE, value |-> <<>>])
        ELSE [returns |-> TRUE, value |-> user_input]

\* lines typed at a prompt: empty, blank, text, numbers and near-numbers
Lines ==
    { <<>>, <<" "," ">>, <<" ","a","b"," ">>, <<"1","2">>, <<" ","-","3"," ">>,
      <<"7","x">>, <<"+","0","5">>, <<"1","_","0">>, <<"1",".","5">>, <<"-">> }

RECURSIVE LinesTyped(_)
LinesTyped(n) ==
    IF n = 0 THEN {<<>>}
    ELSE LET fewer == LinesTyped(n - 1)
         IN  fewer \cup {t \o <<l>> : t \in fewer, l \in Lines}

\* the profile and the pool of a session that has generated three candidates
SampleProfile == ask_questions([password_count |-> 3] @@ Numbers @@ UniformTexts)
SampleNatural == natural_pool(<<>>, SampleProfile, 1, 0)
SamplePool == limit_to(SampleNatural, 3)

\* a session before its first generation, and one after it
SampleSessions ==
    {[passwords |-> <<>>, user_info |-> <<>>, natural |-> <<>>, generations |-> 0],
     [passwords |-> SamplePool, user_info |-> SampleProfile,
      natural |-> SampleNatural, generations |-> 1]}

\* src/CybPss.py is at its menu in the given session; nothing was typed,
\* written or ended
SessionAt(session) ==
    /\ program = "CybPss"
    /\ pc = "menu"
    /\ passwords = session.passwords
    /\ user_info = session.user_info
    /\ info_list = <<>>
    /\ requested_count = 0
    /\ generated_count = 0
    /\ batch_size = 0
    /\ batch_passwords = <<>>
    /\ iter = 0
    /\ natural = session.natural
    /\ batches = 0
    /\ generations = session.generations
    /\ hashseed = 0
    /\ files = <<>>
    /\ exit_code = <<>>
    /\ screen = show("")

InputCalls ==
    {[op |-> "get_user_input", input_type |-> t, typed |-> l, session |-> s] :
        t \in {"str", "int"}, l \in LinesTyped(MaxEntries), s \in SampleSessions}

\* the session is at a prompt of get_user_input, and the user goes on typing
InitInput ==
    /\ call \in InputCalls
    /\ result = NoResult
    /\ SessionAt(call.session)
    /\ stdin = call.typed

\* lines 311-321: input() hands over the next line, and the loop returns or
\* prompts again
ReadLine ==
    /\ call.op = "get_user_input"
    /\ ~result.done
    /\ exit_code = <<>>
    /\ stdin # <<>>
    /\ stdin' = Tail(stdin)
    /\ LET pass == get_user_input(Head(stdin), call.input_type)
       IN  result' = IF pass.returns THEN [done |-> TRUE, value |-> pass.value]
                     ELSE result
    /\ UNCHANGED <<call, program, pc, passwords, user_info, loopVars, natural,
                   batches, generations, hashseed, files, exit_code, screen>>

\* lines 322-324: the user interrupts the read
InterruptRead ==
    /\ call.op = "get_user_input"
    /\ ~result.done
    /\ exit_code = <<>>
    /\ exit_code' = <<0>>
    /\ UNCHANGED <<call, result, program, pc, passwords, user_info, loopVars,
                   natural, batches, generations, hashseed, stdin, files, screen>>

NextInput ==
    \/ ReadLine
    \/ InterruptRead

SpecInput == InitInput /\ [][NextInput]_vars

\* the lines that get_user_input has read so far
LinesRead == SubSeq(call.typed, 1, Len(call.typed) - Len(stdin))

\* a line that is not empty once trimmed and, at a numeric prompt, spells an
\* integer between its blanks: an optional sign, then digits, any underscore
\* between two digits
ValidEntry(line, input_type) ==
    LET inked == {i \in 1..Len(line) : line[i] \notin whitespace}
        lo == CHOOSE i \in inked : \A j \in inked : i <= j
        hi == CHOOSE i \in inked : \A j \in inked : i >= j
        start == IF line[lo] \in {"+", "-"} THEN lo + 1 ELSE lo
    IN  /\ inked # {}
        /\ input_type = "int" =>
               /\ start <= hi
               /\ \A i \in start..hi :
                      \/ isdigit(line[i])
                      \/ /\ line[i] = "_"
                         /\ start < i /\ i < hi
                         /\ isdigit(line[i - 1]) /\ isdigit(line[i + 1])

\* C16: get_user_input returns only on a valid entry: the line read last is
\* valid, every line read before it was not, and the value returned is that
\* line trimmed or the integer it spells; while only invalid lines were read
\* nothing is returned; profile and pool stay as they were
C16_ValidEntryOnly ==
    call.op = "get_user_input" =>
        /\ passwords = call.session.passwords
        /\ user_info = call.session.user_info
        /\ result.done =>
              /\ LinesRead # <<>>
              /\ ValidEntry(LinesRead[Len(LinesRead)], call.input_type)
              /\ \A i \in 1..(Len(LinesRead) - 1) :
                    ~ValidEntry(LinesRead[i], call.input_type)
              /\ IF call.input_type = "int"
                 THEN SelectSeq(int_str(result.value), isdigit)
                      = nat_str(digits_value(
                            SelectSeq(LinesRead[Len(LinesRead)], isdigit),
                            Len(SelectSeq(LinesRead[Len(LinesRead)], isdigit))))
                 ELSE /\ result.value # <<>>
                      /\ result.value[1] \notin whitespace
                      /\ result.value[Len(result.value)] \notin whitespace
                      /\ str_contains(LinesRead[Len(LinesRead)], result.value)
        /\ (\A i \in 1..Len(LinesRead) : ~ValidEntry(LinesRead[i], call.input_type))
              => ~result.done

\* after an empty line and a line that is no number, the numeric prompt
\* returned the integer of the third line
C16_Witness ==
    /\ call.op = "get_user_input"
    /\ call.input_type = "int"
    /\ call.typed = << <<>>, <<"7","x">>, <<" ","-","3"," ">> >>
    /\ stdin = <<>>
    /\ result.done
    /\ result.value = -3
    /\ passwords = SamplePool

(***************************************************************************)
(* analyze_strength called again and again in a session: between two calls *)
(* option 1 of the menu may run, so that the pool and the profile differ   *)
(* from one call to the next.                                              *)
(***************************************************************************)
MaxCalls == 3

AnalyzedPasswords ==
    { <<"a","b","c","1","2","3">>,
      <<"X","y","7","!","X","y","7","!","X","y","7","!">>,
      <<"a","d","m","i","n","A","D","M","I","N","4","5","6","7">> }

ScriptSteps ==
    {[do |-> "analyze_strength", password |-> p] : p \in AnalyzedPasswords}
    \cup {[do |-> "generate", password |-> <<>>]}

RECURSIVE Scripts(_)
Scripts(n) ==
    IF n = 0 THEN {<<>>}
    ELSE LET shorter == Scripts(n - 1)
         IN  shorter \cup {t \o <<c>> : t \in shorter, c \in ScriptSteps}

ReanalyzeCalls ==
    {[op |-> "analyze_strength again", script |-> t, session |-> s] :
        t \in Scripts(MaxCalls) \ {<<>>}, s \in SampleSessions}

\* result.value holds what each step of the script returned
InitReanalyze ==
    /\ call \in ReanalyzeCalls
    /\ result = NoResult
    /\ SessionAt(call.session)
    /\ stdin = <<>>

\* lines 94-153: the next step of the script is a call of analyze_strength
AnalyzeAgain ==
    /\ call.op = "analyze_strength again"
    /\ Len(result.value) < Len(call.script)
    /\ LET step == call.script[Len(result.value) + 1]
           returned == Append(result.value, analyze_strength(step.password))
       IN  /\ step.do = "analyze_strength"
           /\ result' = [done |-> Len(returned) = Len(call.script), value |-> returned]
    /\ UNCHANGED <<call, sessionVars>>

\* lines 874-876: the next step of the script is option 1, answered with the
\* sample profile
GenerateBetween ==
    /\ call.op = "analyze_strength again"
    /\ Len(result.value) < Len(call.script)
    /\ LET step == call.script[Len(result.value) + 1]
           returned == Append(result.value, [generated |-> TRUE])
           pool == natural_pool(passwords, SampleProfile, 1, hashseed)
       IN  /\ step.do = "generate"
           /\ result' = [done |-> Len(returned) = Len(call.script), value |-> returned]
           /\ user_info' = SampleProfile
           /\ natural' = pool
           /\ passwords' = limit_to(pool, requested_count_of(SampleProfile))
           /\ generations' = generations + 1
    /\ UNCHANGED <<call, program, pc, loopVars, batches, hashseed, ioVars>>

NextReanalyze ==
    \/ AnalyzeAgain
    \/ GenerateBetween

SpecReanalyze == InitReanalyze /\ [][NextReanalyze]_vars

\* the steps of the script done so far that were calls of analyze_strength
AnalyzedSteps ==
    {i \in 1..Len(result.value) : call.script[i].do = "analyze_strength"}

Faults == {"none", "open", "write"}

\* datetime.now().strftime("%Y%m%d_%H%M%S") and ('%Y-%m-%d %H:%M:%S')
timestamp == <<"2","0","2","5","0","1","0","1","_","1","2","0","0","0","0">>
generated_at ==
    <<"2","0","2","5","-","0","1","-","0","1"," ","1","2",":","0","0",":","0","0">>

literal(text) == [label |-> text, text |-> <<>>]
field(label, text) == [label |-> label, text |-> text]
blank_line == literal("")

\* what open() and the writes leave on the disk
written(filename, format, content, fault) ==
    IF fault = "none" THEN <<[name |-> filename, format |-> format, content |-> content]>>
    ELSE IF fault = "write" THEN <<[name |-> filename, format |-> format, content |-> <<>>]>>
    ELSE <<>>

\* lines 797-807: password_data
password_data_of(pool) ==
    [i \in 1..Len(pool) |->
        LET analysis == analyze_strength(pool[i])
        IN  [password |-> pool[i],
             strength |-> get_strength_level(analysis.score),
             length |-> analysis.length,
             entropy |-> analysis.entropy,
             score |-> analysis.score]]

\* self.user_info.get('name', 'Unknown')
name_or_unknown(info) ==
    IF "name" \in DOMAIN info THEN info.name ELSE <<"U","n","k","n","o","w","n">>

\* lines 853-859 (the bullet of the source is written *)
security_recommendations ==
    << literal("SECURITY RECOMMENDATIONS:"),
       literal("------------------------------"),
       literal("* Use different passwords for each account"),
       literal("* Change passwords regularly (every 3-6 months)"),
       literal("* Enable two-factor authentication when possible"),
       literal("* Never share passwords with anyone"),
       literal("* Use a password manager for better security") >>

\* lines 840-859: what save_txt_file writes
txt_lines(password_data, info) ==
    << literal("CYB PASS - Professional Password Generator"),
       literal("=================================================="),
       blank_line,
       field("Generated on: ", generated_at),
       field("Total passwords: ", nat_str(Len(password_data))),
       field("User: ", name_or_unknown(info)),
       blank_line,
       literal("PASSWORD LIST:"),
       literal("------------------------------") >>
    \o [i \in 1..Len(password_data) |-> field("", password_data[i].password)]
    \o <<blank_line>> \o security_recommendations

\* lines 836-863: the file left and the boolean returned
save_txt_file(filename, password_data, info, fault) ==
    [files |-> written(filename, "txt", txt_lines(password_data, info), fault),
     ok |-> fault = "none"]

\* mutant: total_count says how many exports were made
json_data_counting(password_data, info) ==
    [user_info |-> [name |-> name_or_unknown(info), generated_at |-> generated_at],
     passwords |-> [i \in 1..Len(password_data) |-> password_data[i].password],
     total_count |-> 1,
     version |-> "2.0.0"]

\* lines 191-201: the object given to json.dump
json_data(password_data, info) ==
    LET password_list == [i \in 1..Len(password_data) |-> password_data[i].password]
    IN  [user_info |-> [name |-> name_or_unknown(info), generated_at |-> generated_at],
         passwords |-> password_list,
         total_count |-> Len(password_list),
         version |-> "2.0.0"]

\* lines 186-207
save_passwords_json(password_data, filename, info, fault) ==
    [files |-> written(filename, "json", json_data(password_data, info), fault),
     ok |-> fault = "none"]

\* lines 214-217: the rows given to csv.writer
csv_rows(password_data) ==
    << << <<"P","a","s","s","w","o","r","d">> >> >>
    \o [i \in 1..Len(password_data) |-> <<password_data[i].password>>]

\* lines 209-221
save_passwords_csv(password_data, filename, fault) ==
    [files |-> written(filename, "csv", csv_rows(password_data), fault),
     ok |-> fault = "none"]

cybpass_filename(ext) == [stem |-> "cybpass_passwords_", timestamp |-> timestamp, ext |-> ext]

\* mutant: a format that fails ends the export
save_to_file_until_failure(pool, info, choice, fault) ==
    LET password_data == password_data_of(pool)
        txt == IF choice \in {1, 4}
               THEN save_txt_file(cybpass_filename(".txt"), password_data, info, fault.txt)
               ELSE [files |-> <<>>, ok |-> FALSE]
        txt_failed == choice \in {1, 4} /\ ~txt.ok
        json == IF choice \in {2, 4} /\ ~txt_failed
                THEN save_passwords_json(password_data, cybpass_filename(".json"), info,
                                         fault.json)
                ELSE [files |-> <<>>, ok |-> FALSE]
        json_failed == choice \in {2, 4} /\ ~json.ok
        csv == IF choice \in {3, 4} /\ ~txt_failed /\ ~json_failed
               THEN save_passwords_csv(password_data, cybpass_filename(".csv"), fault.csv)
               ELSE [files |-> <<>>, ok |-> FALSE]
    IN  [files |-> txt.files \o json.files \o csv.files,
         failed |-> (IF txt_failed THEN {<<"txt", fault.txt>>} ELSE {})
                    \cup (IF json_failed /\ ~txt_failed
                          THEN {<<"json", fault.json>>} ELSE {})
                    \cup (IF choice \in {3, 4} /\ ~txt_failed /\ ~json_failed /\ ~csv.ok
                          THEN {<<"csv", fault.csv>>} ELSE {}),
         saved_files |-> (IF txt.ok THEN <<cybpass_filename(".txt")>> ELSE <<>>)
                         \o (IF json.ok THEN <<cybpass_filename(".json")>> ELSE <<>>)
                         \o (IF csv.ok THEN <<cybpass_filename(".csv")>> ELSE <<>>)]

\* lines 783-834: save_to_file once the format was chosen: the files left,
\* the errors printed by the exporters (lines 206, 220, 862) and the list
\* returned (<<>> is None)
save_to_file(pool, info, choice, fault) ==
    LET password_data == password_data_of(pool)
        txt == IF choice \in {1, 4}
               THEN save_txt_file(cybpass_filename(".txt"), password_data, info, fault.txt)
               ELSE [files |-> <<>>, ok |-> FALSE]
        json == IF choice \in {2, 4}
                THEN save_passwords_json(password_data, cybpass_filename(".json"), info,
                                         fault.json)
                ELSE [files |-> <<>>, ok |-> FALSE]
        csv == IF choice \in {3, 4}
               THEN save_passwords_csv(password_data, cybpass_filename(".csv"), fault.csv)
               ELSE [files |-> <<>>, ok |-> FALSE]
    IN  [files |-> txt.files \o json.files \o csv.files,
         failed |-> (IF choice \in {1, 4} /\ ~txt.ok THEN {<<"txt", fault.txt>>} ELSE {})
                    \cup (IF choice \in {2, 4} /\ ~json.ok
                          THEN {<<"json", fault.json>>} ELSE {})
                    \cup (IF choice \in {3, 4} /\ ~csv.ok
                          THEN {<<"csv", fault.csv>>} ELSE {}),
         saved_files |-> (IF txt.ok THEN <<cybpass_filename(".txt")>> ELSE <<>>)
                         \o (IF json.ok THEN <<cybpass_filename(".json")>> ELSE <<>>)
                         \o (IF csv.ok THEN <<cybpass_filename(".csv")>> ELSE <<>>)]

\* src/password_generator.py lines 150-169
calculate_strength(password) ==
    LET score == Bool2Int(Len(password) >= 8)
                 + Bool2Int(\E i \in 1..Len(password) : isupper(password[i]))
                 + Bool2Int(\E i \in 1..Len(password) : islower(password[i]))
                 + Bool2Int(\E i \in 1..Len(password) : isdigit(password[i]))
                 + Bool2Int(\E i \in 1..Len(password) : password[i] \in SpecialSet)
    IN  IF score <= 2 THEN <<"[","W","e","a","k","]">>
        ELSE IF score <= 4 THEN <<"[","M","e","d","i","u","m","]">>
        ELSE <<"[","S","t","r","o","n","g","]">>

\* f"{i:2d}"
two_wide(i) == IF i < 10 THEN <<" ">> \o nat_str(i) ELSE nat_str(i)

\* src/password_generator.py line 185: f"{i:2d}. {password} {strength}"
numbered_entry(i, password) ==
    two_wide(i) \o <<".", " ">> \o password \o <<" ">> \o calculate_strength(password)

\* src/password_generator.py lines 177-185
basic_txt_lines(pool) ==
    << literal("CybPss Generated Passwords"),
       literal("========================================"),
       blank_line,
       field("Generated on: ", generated_at),
       field("Total passwords: ", nat_str(Len(pool))),
       blank_line >>
    \o [i \in 1..Len(pool) |-> field("", numbered_entry(i, pool[i]))]

\* src/password_generator.py lines 171-191: the file left, and the name
\* returned (<<>> is None)
basic_save_to_file(pool, fault) ==
    LET filename == [stem |-> "cybpss_passwords_", timestamp |-> timestamp, ext |-> ".txt"]
    IN  [files |-> written(filename, "txt", basic_txt_lines(pool), fault),
         saved_files |-> IF fault = "none" THEN <<filename>> ELSE <<>>]

(***************************************************************************)
(* src/test_cybpss.py: a script that builds a PasswordGenerator, assigns   *)
(* user_info, calls generate_passwords and then save_to_file.  The script  *)
(* is run with the class of either program and with its own profile or a   *)
(* complete one.                                                           *)
(***************************************************************************)
\* src/test_cybpss.py lines 18-26
TestProfile ==
    [name |-> <<"J","o","h","n">>,
     birth_year |-> 1990,
     favorite_color |-> <<"b","l","u","e">>,
     favorite_animal |-> <<"t","i","g","e","r">>,
     hobby |-> <<"r","e","a","d","i","n","g">>,
     favorite_number |-> 7,
     city |-> <<"N","e","w"," ","Y","o","r","k">>]

\* the same person with every key that ask_questions sets, but the count
CompleteProfile ==
    LET asked == ask_questions([password_count |-> 1] @@ Numbers @@ JohnTexts)
    IN  [k \in DOMAIN asked \ {"password_count"} |-> asked[k]]

\* lines 409-412, 499-512 and 542-545: the keys that generate_passwords
\* subscripts self.user_info with
generate_keys ==
    {"name", "nickname", "favorite_color", "favorite_animal", "hobby", "city",
     "country", "favorite_food", "favorite_sport", "favorite_movie",
     "favorite_music", "profession", "favorite_season", "pet_name",
     "birth_year", "birth_month", "birth_day", "favorite_number"}

\* the format typed at the prompt of line 795
FormatChoices == {1, 2, 3, 4, 5}

formats_of(choice) ==
    (IF choice \in {1, 4} THEN {"txt"} ELSE {})
    \cup (IF choice \in {2, 4} THEN {"json"} ELSE {})
    \cup (IF choice \in {3, 4} THEN {"csv"} ELSE {})

\* where the system makes the exporters of the chosen formats fail
FaultsFor(choice) ==
    {f \in [{"txt", "json", "csv"} -> Faults] :
        \A format \in {"txt", "json", "csv"} \ formats_of(choice) : f[format] = "none"}

ScriptCalls ==
    {[op |-> "test_cybpss", user_info |-> u] : u \in {TestProfile, CompleteProfile}}

\* src/test_cybpss.py lines 15-26
InitScript ==
    /\ call \in ScriptCalls
    /\ result = NoResult
    /\ program \in {"CybPss", "password_generator"}
    /\ hashseed \in Seeds
    /\ pc = "test generate"
    /\ passwords = <<>>
    /\ user_info = call.user_info
    /\ info_list = <<>>
    /\ requested_count = 0
    /\ generated_count = 0
    /\ batch_size = 0
    /\ batch_passwords = <<>>
    /\ iter = 0
    /\ natural = <<>>
    /\ batches = 0
    /\ generations = 0
    /\ stdin = <<>>
    /\ files = <<>>
    /\ exit_code = <<>>
    /\ screen = show("")

\* src/test_cybpss.py line 35 with src/CybPss.py lines 492-572: a key that
\* self.user_info lacks raises KeyError at line 500, which nothing catches
TestGenerate ==
    /\ call.op = "test_cybpss"
    /\ program = "CybPss"
    /\ pc = "test generate"
    /\ IF ~(generate_keys \subseteq DOMAIN user_info)
       THEN /\ pc' = "exited"
            /\ exit_code' = <<1>>
            /\ UNCHANGED <<passwords, natural, generations, loopVars>>
       ELSE /\ \E seed \in Seeds :
                \E pool \in {natural_pool(passwords, user_info, seed, hashseed)} :
                    /\ natural' = pool
                    /\ IF Len(pool) < requested_count_of(user_info)
                       THEN /\ passwords' = pool
                            /\ pc' = "topup"
                            /\ info_list' = info_list_of(user_info)
                            /\ requested_count' = requested_count_of(user_info)
                            /\ batch_size' =
                                   Min(100, requested_count_of(user_info) - Len(pool))
                            /\ generated_count' = Len(pool)
                            /\ UNCHANGED <<batch_passwords, iter>>
                       ELSE /\ passwords' = limit_to(pool, requested_count_of(user_info))
                            /\ pc' = "test save"
                            /\ UNCHANGED loopVars
            /\ generations' = generations + 1
            /\ UNCHANGED exit_code
    /\ UNCHANGED <<callVars, program, user_info, batches, hashseed, stdin, files,
                   screen>>

\* src/test_cybpss.py line 35 with src/password_generator.py lines 108-135
TestGenerateBasic ==
    /\ call.op = "test_cybpss"
    /\ program = "password_generator"
    /\ pc = "test generate"
    /\ \E seed \in Seeds :
        passwords' = basic_generate_passwords(passwords, user_info, seed, hashseed)
    /\ pc' = "test save"
    /\ generations' = generations + 1
    /\ UNCHANGED <<callVars, program, user_info, loopVars, natural, batches,
                   hashseed, ioVars>>

\* src/test_cybpss.py line 52 with src/CybPss.py lines 783-834
TestSave ==
    /\ call.op = "test_cybpss"
    /\ program = "CybPss"
    /\ pc = "test save"
    /\ \E choice \in FormatChoices :
       \E fault \in FaultsFor(choice) :
       \E saved \in {save_to_file(passwords, user_info, choice, fault)} :
            /\ files' = files \o saved.files
            /\ result' = [done |-> TRUE, value |-> saved.saved_files]
    /\ pc' = "test done"
    /\ UNCHANGED <<call, program, passwords, user_info, loopVars, natural, batches,
                   generations, hashseed, stdin, exit_code, screen>>

\* src/test_cybpss.py line 52 with src/password_generator.py lines 171-191
TestSaveBasic ==
    /\ call.op = "test_cybpss"
    /\ program = "password_generator"
    /\ pc = "test save"
    /\ \E fault \in Faults :
       \E saved \in {basic_save_to_file(passwords, fault)} :
            /\ files' = files \o saved.files
            /\ result' = [done |-> TRUE, value |-> saved.saved_files]
    /\ pc' = "test done"
    /\ UNCHANGED <<call, program, passwords, user_info, loopVars, natural, batches,
                   generations, hashseed, stdin, exit_code, screen>>

\* src/test_cybpss.py lines 53-58: the script reports and ends
TestEnds ==
    /\ call.op = "test_cybpss"
    /\ pc = "test done"
    /\ pc' = "exited"
    /\ exit_code' = <<0>>
    /\ UNCHANGED <<callVars, program, passwords, user_info, loopVars, natural,
                   batches, generations, hashseed, stdin, files, screen>>

NextScript ==
    \/ TestGenerate
    \/ TestGenerateBasic
    \/ TestSave
    \/ TestSaveBasic
    \/ TestEnds

SpecScript == InitScript /\ [][NextScript]_vars

\* C11: with the profile of src/test_cybpss.py and no password_count,
\* generate_passwords completes without error and leaves a pool that is not
\* empty, has no duplicate and holds candidates of 12 to 16 characters; the
\* save_to_file that follows returns a filename unless the write fails
C11_TestProfile ==
    (call.op = "test_cybpss" /\ user_info = TestProfile /\ pc # "test generate")
    => /\ pc = "exited" => exit_code = <<0>>
       /\ passwords # <<>>
       /\ NoDuplicates(passwords)
       /\ \A i \in 1..Len(passwords) : Len(passwords[i]) \in 12..16
       /\ (result.done /\ \E i \in 1..Len(files) : files[i].content # <<>>)
            => result.value # <<>>

(***************************************************************************)
(* What a reader finds in the files written.                               *)
(***************************************************************************)
\* the files of a format that were written to their end
FilesWritten(format) ==
    {i \in 1..Len(files) : files[i].format = format /\ files[i].content # <<>>}

\* the lines of a text file that hold a value and no literal: its list
txt_entries(lines) == SelectSeq(lines, LAMBDA l : l.label = "" /\ l.text # <<>>)

\* the number on the 'Total passwords' line
txt_total(lines) ==
    LET at == CHOOSE i \in 1..Len(lines) : lines[i].label = "Total passwords: "
    IN  int_of(lines[at].text)

\* the lines after the last entry of the list
txt_footer(lines) ==
    LET listed == {i \in 1..Len(lines) : lines[i].label = "" /\ lines[i].text # <<>>}
        last == IF listed = {} THEN 0 ELSE CHOOSE i \in listed : \A j \in listed : j <= i
    IN  SubSeq(lines, last + 1, Len(lines))

\* C12: a text file saved from the pool lists the candidates of the pool,
\* one entry for each and in their order, as many as its 'Total passwords'
\* line states, and ends with the fixed block of security tips
C12_TxtListAndFooter ==
    \A f \in FilesWritten("txt") :
        LET lines == files[f].content
            entries == txt_entries(lines)
        IN  /\ Len(entries) = Len(passwords)
            /\ \A i \in 1..Len(entries) : str_contains(entries[i].text, passwords[i])
            /\ txt_total(lines) = Len(passwords)
            /\ txt_footer(lines) = <<blank_line>> \o security_recommendations

\* C13: the passwords array of a JSON export is the pool, every candidate
\* once and in pool order, and total_count is the length of the array and
\* the size of the pool; a CSV export is the row 'Password' followed by one
\* row for each candidate, in pool order
C13_JsonAndCsv ==
    /\ \A f \in FilesWritten("json") :
          /\ files[f].content.passwords = passwords
          /\ files[f].content.total_count = Len(files[f].content.passwords)
          /\ files[f].content.total_count = Len(passwords)
    /\ \A f \in FilesWritten("csv") :
          LET rows == files[f].content
          IN  /\ rows[1] = << <<"P","a","s","s","w","o","r","d">> >>
              /\ Len(rows) = 1 + Len(passwords)
              /\ \A i \in 1..Len(passwords) : rows[i + 1] = <<passwords[i]>>

\* the 25 candidates of a pool were exported in both formats at once
C13_Witness ==
    /\ program = "CybPss"
    /\ Len(passwords) = 25
    /\ NoDuplicates(passwords)
    /\ FilesWritten("json") # {}
    /\ FilesWritten("csv") # {}
    /\ \A f \in FilesWritten("json") : files[f].content.total_count = 25

(***************************************************************************)
(* The interactive session of src/CybPss.py: main, the welcome screen and  *)
(* the menu loop, one action for each option and for each way a blocking   *)
(* console read is broken off.  The files of one session carry the same    *)
(* timestamp (saves within one second), so a later save replaces the file  *)
(* of an earlier one.                                                      *)
(***************************************************************************)
\* line 342: the count above which the confirmation is asked
LargeCountLimit == 1000

\* what the user of the menu answers to the questions
MenuAnswers == {[password_count |-> 3] @@ Numbers @@ UniformTexts}

\* how often the user of the menu takes option 1
MaxMenuGenerations == 1

\* numbers typed at the menu that are no option
InvalidOptions == {0, 9}

\* lines 334-393: the keys of the profile in the order of their prompts
question_keys ==
    <<"password_count", "name", "nickname", "birth_year", "birth_month", "birth_day",
      "favorite_color", "favorite_animal", "hobby", "favorite_number", "city",
      "country", "favorite_food", "favorite_sport", "favorite_movie",
      "favorite_music", "profession", "favorite_season", "pet_name">>

\* the prompts of ask_questions at which the model breaks a read off
InterruptedPrompts == {1, 6, 7, 19}

\* lines 334-393: self.user_info when the read of prompt k is broken off:
\* the answers before it are stored, the month and the day as typed until
\* the day was read (lines 364-369)
answered_before(info, answers, k) ==
    LET asked == {question_keys[i] : i \in 1..(k - 1)}
        clamped == ask_questions(answers)
    IN  [key \in asked \cup DOMAIN info |->
            IF key \notin asked THEN info[key]
            ELSE IF key \in {"birth_month", "birth_day"} /\ k <= 6 THEN answers[key]
            ELSE clamped[key]]

\* open(filename, 'w') and the writes: a file written replaces the file of
\* its name
stored(disk, new) ==
    LET replaced == [i \in 1..Len(disk) |->
                        IF \E j \in 1..Len(new) : new[j].name = disk[i].name
                        THEN new[CHOOSE j \in 1..Len(new) : new[j].name = disk[i].name]
                        ELSE disk[i]]
        added == SelectSeq(new, LAMBDA f : \A i \in 1..Len(disk) : disk[i].name # f.name)
    IN  replaced \o added

\* mutant: every number from 8 on leaves the loop
show_menu_next_from_exit(choice) == IF choice >= 8 THEN "exited" ELSE "menu"

\* lines 871-915: where the loop stands after the handler of an option
\* returned: line 910 breaks, every other branch goes round
show_menu_next(choice) == IF choice = 8 THEN "exited" ELSE "menu"

\* lines 1083-1087: main returns once show_menu returned
GoesRound(choice) ==
    /\ pc' = show_menu_next(choice)
    /\ exit_code' = IF show_menu_next(choice) = "exited" THEN <<0>> ELSE exit_code

typing(message, entries) == [show(message) EXCEPT !.typed = entries]

\* an option that prints and changes nothing
Informs(choice, message) ==
    /\ program = "CybPss"
    /\ pc = "menu"
    /\ screen' = typing(message, <<choice>>)
    /\ GoesRound(choice)
    /\ UNCHANGED <<callVars, program, passwords, user_info, loopVars, natural, batches,
                   generations, hashseed, stdin, files>>

\* a process that ended with a status
Exits(status, message, entries) ==
    /\ pc' = "exited"
    /\ exit_code' = <<status>>
    /\ screen' = typing(message, entries)

InitMenu ==
    /\ call = NoCall
    /\ result = NoResult
    /\ program = "CybPss"
    /\ hashseed = 0
    /\ pc = "welcome"
    /\ passwords = <<>>
    /\ user_info = <<>>
    /\ info_list = <<>>
    /\ requested_count = 0
    /\ generated_count = 0
    /\ batch_size = 0
    /\ batch_passwords = <<>>
    /\ iter = 0
    /\ natural = <<>>
    /\ batches = 0
    /\ generations = 0
    /\ stdin = <<>>
    /\ files = <<>>
    /\ exit_code = <<>>
    /\ screen = show("Press Enter to start using CYB PASS...")

\* line 306 then lines 868-869: Enter at the welcome screen
WelcomeEnter ==
    /\ pc = "welcome"
    /\ pc' = "menu"
    /\ screen' = show("Select option (1-8)")
    /\ UNCHANGED <<callVars, program, passwords, user_info, loopVars, natural, batches,
                   generations, hashseed, stdin, files, exit_code>>

\* line 306 with lines 1088-1089: the read of the welcome screen is
\* interrupted; main catches KeyboardInterrupt and returns
InterruptWelcome ==
    /\ pc = "welcome"
    /\ Exits(0, "Operation cancelled. Goodbye!", <<>>)
    /\ UNCHANGED <<callVars, program, passwords, user_info, loopVars, natural, batches,
                   generations, hashseed, stdin, files>>

\* lines 874-878: option 1
MenuGenerate ==
    /\ generations < MaxMenuGenerations
    /\ GenerateFrom(MenuAnswers)
    /\ screen' = typing("[COMPLETE] passwords generated", <<1>>)
    /\ UNCHANGED <<stdin, files, exit_code>>

\* mutant: an empty pool passes for a pool
has_passwords_always(pool) == TRUE

\* lines 879, 888 and 938: the truth value of self.passwords
has_passwords(pool) == pool # <<>>

RECURSIVE total_score(_)
\* lines 741 and 953: the sum of the scores of the passwords
total_score(pool) ==
    IF pool = <<>> THEN 0
    ELSE analyze_strength(Head(pool)).score + total_score(Tail(pool))

\* lines 724-751: the averages of display_password_statistics_simple, each
\* kept as the two operands of its division
display_password_statistics_simple(pool) ==
    LET sample_size == Min(100, Len(pool))
        sample_passwords == SubSeq(pool, 1, sample_size)
    IN  << <<total_score(sample_passwords), sample_size>>,
           <<Len(flatten(sample_passwords)), sample_size>> >>

\* lines 946-955: the averages of analyze_passwords, kept the same way
analyze_averages(pool) ==
    << <<total_score(pool), Len(pool)>>, <<Len(flatten(pool)), Len(pool)>> >>

\* a division by zero raises ZeroDivisionError
raises_zero_division(divisions) ==
    \E i \in 1..Len(divisions) : divisions[i][2] = 0

\* what a handler that computed divisions leaves: the averages on the
\* console and the loop going round, or the ZeroDivisionError that leaves
\* show_menu for main's except clause (lines 1090-1092)
Averages(choice, message, divisions) ==
    IF raises_zero_division(divisions)
    THEN /\ screen' = typing("Unexpected error occurred: division by zero", <<choice>>)
         /\ pc' = "exit prompt"
         /\ UNCHANGED exit_code
    ELSE /\ screen' = [typing(message, <<choice>>) EXCEPT !.average = divisions]
         /\ GoesRound(choice)

\* lines 879-887 with 626-692: option 2
MenuDisplay ==
    /\ program = "CybPss"
    /\ pc = "menu"
    /\ IF has_passwords(passwords)
       THEN Averages(2, "[SUCCESS] Generated unique passwords!",
                     display_password_statistics_simple(passwords))
       ELSE /\ screen' = typing("[WARNING] No passwords available", <<2>>)
            /\ GoesRound(2)
    /\ UNCHANGED <<callVars, program, passwords, user_info, loopVars, natural, batches,
                   generations, hashseed, stdin, files>>

\* lines 888-897 with 783-834: option 3
MenuSave ==
    /\ program = "CybPss"
    /\ pc = "menu"
    /\ IF ~has_passwords(passwords)
       THEN /\ screen' = typing("[WARNING] No passwords to save.", <<3>>)
            /\ UNCHANGED files
       ELSE \E choice \in FormatChoices : \E fault \in FaultsFor(choice) :
            \E saved \in {save_to_file(passwords, user_info, choice, fault)} :
                /\ files' = stored(files, saved.files)
                /\ screen' = [shows |-> IF saved.saved_files # <<>>
                                        THEN "[SUCCESS] Files saved successfully!"
                                        ELSE "[ERROR] Failed to save files",
                              typed |-> <<3, choice>>,
                              saved |-> saved.saved_files,
                              failed |-> saved.failed,
                              average |-> <<>>]
    /\ GoesRound(3)
    /\ UNCHANGED <<callVars, program, passwords, user_info, loopVars, natural, batches,
                   generations, hashseed, stdin>>

\* lines 898-901 with 936-985: option 4
MenuAnalyze ==
    /\ program = "CybPss"
    /\ pc = "menu"
    /\ IF has_passwords(passwords)
       THEN Averages(4, "[ANALYZE] Advanced Password Analysis",
                     analyze_averages(passwords))
       ELSE /\ screen' = typing("[WARNING] No passwords to analyze", <<4>>)
            /\ GoesRound(4)
    /\ UNCHANGED <<callVars, program, passwords, user_info, loopVars, natural, batches,
                   generations, hashseed, stdin, files>>

\* lines 902-905: option 5
MenuCategories ==
    /\ pc = "menu"
    /\ Informs(5, "[CATEGORIES]")

\* lines 906-909: option 6
MenuSettings ==
    /\ pc = "menu"
    /\ Informs(6, "[SETTINGS]")

\* lines 910-913: option 7
MenuAbout ==
    /\ pc = "menu"
    /\ Informs(7, "[ABOUT]")

\* lines 914-916: option 8
MenuExit ==
    /\ pc = "menu"
    /\ Informs(8, "[GOODBYE] Thank you for using CYB PASS! Goodbye!")

\* lines 917-920: a number that is no option
MenuInvalid ==
    /\ pc = "menu"
    /\ \E choice \in InvalidOptions :
          Informs(choice, "[ERROR] Invalid choice. Please try again.")

\* lines 321-323: the read of the menu prompt is interrupted: sys.exit(0)
InterruptMenu ==
    /\ program = "CybPss"
    /\ pc = "menu"
    /\ Exits(0, "Operation cancelled. Goodbye!", <<>>)
    /\ UNCHANGED <<callVars, program, passwords, user_info, loopVars, natural, batches,
                   generations, hashseed, stdin, files>>

\* lines 321-323 within 334-393: the read of a question is interrupted
InterruptQuestion ==
    /\ program = "CybPss"
    /\ pc = "menu"
    /\ \E answers \in MenuAnswers, k \in InterruptedPrompts :
          user_info' = answered_before(user_info, answers, k)
    /\ Exits(0, "Operation cancelled. Goodbye!", <<1>>)
    /\ UNCHANGED <<callVars, program, passwords, loopVars, natural, batches,
                   generations, hashseed, stdin, files>>

\* line 344 with lines 1088-1089: the read of the confirmation of a large
\* count is interrupted; main catches KeyboardInterrupt and returns
InterruptConfirm ==
    /\ program = "CybPss"
    /\ pc = "menu"
    /\ user_info' = answered_before(user_info,
                        [password_count |-> LargeCountLimit + 1] @@ Numbers @@ UniformTexts, 2)
    /\ Exits(0, "Operation cancelled. Goodbye!", <<1, LargeCountLimit + 1>>)
    /\ UNCHANGED <<callVars, program, passwords, loopVars, natural, batches,
                   generations, hashseed, stdin, files>>

\* lines 321-323 at line 795: the read of the format is interrupted
InterruptFormat ==
    /\ program = "CybPss"
    /\ pc = "menu"
    /\ passwords # <<>>
    /\ Exits(0, "Operation cancelled. Goodbye!", <<3>>)
    /\ UNCHANGED <<callVars, program, passwords, user_info, loopVars, natural, batches,
                   generations, hashseed, stdin, files>>

\* lines 1090-1092: a console read finds the end of the input (EOFError is
\* no ValueError and no KeyboardInterrupt); main reports it and asks for
\* Enter.  The read is the welcome screen's, the menu's, the first
\* question's or the format's.
EndOfInput ==
    /\ program = "CybPss"
    /\ \/ pc = "welcome" /\ screen' = typing("Unexpected error occurred", <<>>)
       \/ pc = "menu" /\ \E entries \in {<<>>, <<1>>} :
                            screen' = typing("Unexpected error occurred", entries)
       \/ pc = "menu" /\ passwords # <<>>
                      /\ screen' = typing("Unexpected error occurred", <<3>>)
    /\ pc' = "exit prompt"
    /\ UNCHANGED <<callVars, program, passwords, user_info, loopVars, natural, batches,
                   generations, hashseed, stdin, files, exit_code>>

\* line 1092: Enter at 'Press Enter to exit...'; main returns
ExitPromptEnter ==
    /\ pc = "exit prompt"
    /\ Exits(0, "", <<>>)
    /\ UNCHANGED <<callVars, program, passwords, user_info, loopVars, natural, batches,
                   generations, hashseed, stdin, files>>

\* line 1092: the read of 'Press Enter to exit...' finds the end of the
\* input: the EOFError raised in the handler is caught nowhere
ExitPromptEndOfInput ==
    /\ pc = "exit prompt"
    /\ Exits(1, "Traceback: EOFError", <<>>)
    /\ UNCHANGED <<callVars, program, passwords, user_info, loopVars, natural, batches,
                   generations, hashseed, stdin, files>>

\* line 1092: the read of 'Press Enter to exit...' is interrupted: the
\* KeyboardInterrupt raised in the handler is caught nowhere, and the
\* interpreter ends the process as an interrupted one (status 130 to a
\* shell) after the traceback
InterruptExitPrompt ==
    /\ pc = "exit prompt"
    /\ Exits(130, "Traceback: KeyboardInterrupt", <<>>)
    /\ UNCHANGED <<callVars, program, passwords, user_info, loopVars, natural, batches,
                   generations, hashseed, stdin, files>>

NextMenu ==
    \/ WelcomeEnter
    \/ InterruptWelcome
    \/ MenuGenerate
    \/ MenuDisplay
    \/ MenuSave
    \/ MenuAnalyze
    \/ MenuCategories
    \/ MenuSettings
    \/ MenuAbout
    \/ MenuExit
    \/ MenuInvalid
    \/ InterruptMenu
    \/ InterruptQuestion
    \/ InterruptConfirm
    \/ InterruptFormat
    \/ EndOfInput
    \/ ExitPromptEnter
    \/ ExitPromptEndOfInput
    \/ InterruptExitPrompt

SpecMenu == InitMenu /\ [][NextMenu]_vars

(***************************************************************************)
(* The claims about the menu.                                              *)
(***************************************************************************)
FormatNames == {"txt", "json", "csv"}

\* the name save_to_file gives the file of a format
export_name(format) ==
    cybpass_filename(IF format = "txt" THEN ".txt"
                     ELSE IF format = "json" THEN ".json" ELSE ".csv")

\* the console after option 3 went through save_to_file
AfterSave == Len(screen.typed) = 2 /\ screen.typed[1] = 3

Listed(names, name) == \E i \in 1..Len(names) : names[i] = name

\* C14: after a save, every exporter of the chosen format either reported
\* success, and then its file is on the disk written to its end, or printed
\* its error and reported failure, whatever became of the other formats; the
\* list returned names exactly the successes; the session is at the menu,
\* and the save changed neither the pool nor the profile
C14_FailureIsReported ==
    /\ [](AfterSave =>
            /\ pc = "menu"
            /\ exit_code = <<>>
            /\ \A format \in FormatNames \ formats_of(screen.typed[2]) :
                  /\ ~Listed(screen.saved, export_name(format))
                  /\ \A fault \in Faults : <<format, fault>> \notin screen.failed
            /\ \A format \in formats_of(screen.typed[2]) :
                  \/ /\ Listed(screen.saved, export_name(format))
                     /\ \A fault \in Faults : <<format, fault>> \notin screen.failed
                     /\ \E i \in 1..Len(files) :
                           /\ files[i].name = export_name(format)
                           /\ files[i].format = format
                           /\ files[i].content # <<>>
                  \/ /\ ~Listed(screen.saved, export_name(format))
                     /\ <<format, "none">> \notin screen.failed
                     /\ \E fault \in Faults : <<format, fault>> \in screen.failed
                     /\ <<format, "write">> \in screen.failed
                          => \E i \in 1..Len(files) :
                                /\ files[i].name = export_name(format)
                                /\ files[i].content = <<>>)
    /\ [][(Len(screen'.typed) = 2 /\ screen'.typed[1] = 3)
            => (passwords' = passwords /\ user_info' = user_info)]_vars

\* all formats were chosen, the JSON exporter failed, the two others wrote
\* their files, and the menu goes on
C14_Witness ==
    /\ AfterSave
    /\ screen.typed[2] = 4
    /\ screen.failed = {<<"json", "open">>}
    /\ screen.saved = <<export_name("txt"), export_name("csv")>>
    /\ pc = "menu"
    /\ passwords # <<>>

\* what the console shows once a blocking read was interrupted: the farewell
\* of lines 322 and 1089, or the traceback of the interpreter
Interrupted ==
    screen.shows \in {"Operation cancelled. Goodbye!", "Traceback: KeyboardInterrupt"}

\* C15: once a blocking console read was interrupted, the session is over
\* and its exit code is 0
C15_InterruptExitsZero == Interrupted => (pc = "exited" /\ exit_code = <<0>>)

\* C20 as amended: options 2 to 7 and the numbers that are no option leave
\* the pool and the profile as they were; and the menu loop is left only by
\* option 8, by an interrupted read, or by an exception that reaches main
\* (the end of the input), which main reports
C20_MenuFrameOrError ==
    [][pc = "menu" =>
         /\ (screen'.typed # <<>> /\ screen'.typed[1] # 1)
               => (passwords' = passwords /\ user_info' = user_info)
         /\ pc' # "menu"
               => \/ screen'.typed = <<8>>
                  \/ screen'.shows = "Operation cancelled. Goodbye!"
                  \/ screen'.shows = "Unexpected error occurred"]_vars

\* option 1 filled the pool and the profile, a save and a number that is no
\* option followed, and the menu still stands with that pool
C20_Witness ==
    /\ pc = "menu"
    /\ screen.typed = <<9>>
    /\ Len(passwords) = 3
    /\ user_info # <<>>
    /\ files # <<>>

\* C20: options 2 to 7 and the numbers that are no option leave the pool and
\* the profile as they were; and the menu loop is left only by option 8 or
\* by an interrupted read
C20_MenuFrame ==
    [][pc = "menu" =>
         /\ (screen'.typed # <<>> /\ screen'.typed[1] # 1)
               => (passwords' = passwords /\ user_info' = user_info)
         /\ pc' # "menu"
               => \/ screen'.typed = <<8>>
                  \/ screen'.shows = "Operation cancelled. Goodbye!"]_vars

Warnings ==
    {"[WARNING] No passwords available", "[WARNING] No passwords to save.",
     "[WARNING] No passwords to analyze"}

\* the step taken last was display (2), save (3) or analyze (4)
ActedOnPool == screen.typed # <<>> /\ screen.typed[1] \in {2, 3, 4}

\* C29: the pool is empty until a generation completed and non-empty after
\* it; display, save and analyze on the empty pool only print their
\* warning, list no file and compute no average; no step divides by zero;
\* and no step taken on the empty pool writes a file
C29_EmptyPoolOnlyWarns ==
    /\ [](/\ (pc = "menu" /\ generations = 0) => passwords = <<>>
          /\ (pc = "menu" /\ generations > 0) => passwords # <<>>
          /\ (ActedOnPool /\ passwords = <<>>) =>
                 /\ screen.shows \in Warnings
                 /\ screen.saved = <<>>
                 /\ screen.average = <<>>
          /\ screen.shows # "Unexpected error occurred: division by zero"
          /\ \A i \in 1..Len(screen.average) : screen.average[i][2] > 0)
    /\ [][passwords = <<>> => files' = files]_vars

\* display was chosen before any generation
C29_Witness ==
    /\ generations = 0
    /\ screen.typed = <<2>>
    /\ screen.shows = "[WARNING] No passwords available"
    /\ files = <<>>

(***************************************************************************)
(* generate_random_enhanced_password and the helpers of FileManager, each  *)
(* called on its own.                                                      *)
(***************************************************************************)
MaxRandomLength == 20

(***************************************************************************)
(* FileManager.encrypt_data and decrypt_data.  Here a str is the sequence  *)
(* of its code points and a bytes object the sequence of its bytes, so     *)
(* that str.encode, base64.b64encode, base64.b64decode and bytes.decode    *)
(* are computed as Python computes them.                                   *)
(***************************************************************************)
\* str.encode(): the UTF-8 bytes of one code point (no surrogate)
utf8_of(cp) ==
    IF cp < 128 THEN <<cp>>
    ELSE IF cp < 2048 THEN <<192 + (cp \div 64), 128 + (cp % 64)>>
    ELSE IF cp < 65536
    THEN <<224 + (cp \div 4096), 128 + ((cp \div 64) % 64), 128 + (cp % 64)>>
    ELSE <<240 + (cp \div 262144), 128 + ((cp \div 4096) % 64), 128 + ((cp \div 64) % 64),
           128 + (cp % 64)>>

\* str.encode()
str_encode(text) == flatten([i \in 1..Len(text) |-> utf8_of(text[i])])

\* bytes.decode(): the text of well-formed UTF-8, or the UnicodeDecodeError
RECURSIVE bytes_decode(_)
bytes_decode(b) ==
    IF b = <<>> THEN [ok |-> TRUE, text |-> <<>>]
    ELSE LET n == IF b[1] < 128 THEN 1
                  ELSE IF b[1] \in 194..223 THEN 2
                  ELSE IF b[1] \in 224..239 THEN 3
                  ELSE IF b[1] \in 240..244 THEN 4
                  ELSE 0
             continued == n > 0 /\ Len(b) >= n /\ \A k \in 2..n : b[k] \in 128..191
             cp == IF n = 1 THEN b[1]
                   ELSE IF n = 2 THEN (b[1] - 192) * 64 + (b[2] - 128)
                   ELSE IF n = 3
                   THEN (b[1] - 224) * 4096 + (b[2] - 128) * 64 + (b[3] - 128)
                   ELSE (b[1] - 240) * 262144 + (b[2] - 128) * 4096
                        + (b[3] - 128) * 64 + (b[4] - 128)
             shortest == \/ n \in {1, 2}
                         \/ n = 3 /\ cp >= 2048 /\ cp \notin 55296..57343
                         \/ n = 4 /\ cp \in 65536..1114111
         IN  IF ~continued THEN [ok |-> FALSE, text |-> <<>>]
             ELSE IF ~shortest THEN [ok |-> FALSE, text |-> <<>>]
             ELSE LET rest == bytes_decode(SubSeq(b, n + 1, Len(b)))
                  IN  [ok |-> rest.ok, text |-> IF rest.ok THEN <<cp>> \o rest.text ELSE <<>>]

\* the character of the base64 alphabet for a value 0..63, and '='
b64_char(v) ==
    IF v < 26 THEN 65 + v
    ELSE IF v < 52 THEN 97 + (v - 26)
    ELSE IF v < 62 THEN 48 + (v - 52)
    ELSE IF v = 62 THEN 43 ELSE 47

b64_pad == 61

\* the value of a byte in the base64 alphabet, 64 for a byte outside it
b64_value(ch) ==
    IF ch \in 65..90 THEN ch - 65
    ELSE IF ch \in 97..122 THEN ch - 97 + 26
    ELSE IF ch \in 48..57 THEN ch - 48 + 52
    ELSE IF ch = 43 THEN 62
    ELSE IF ch = 47 THEN 63
    ELSE 64

\* base64.b64encode(b)
RECURSIVE b64encode(_)
b64encode(b) ==
    IF b = <<>> THEN <<>>
    ELSE IF Len(b) = 1
    THEN <<b64_char(b[1] \div 4), b64_char((b[1] % 4) * 16), b64_pad, b64_pad>>
    ELSE IF Len(b) = 2
    THEN <<b64_char(b[1] \div 4), b64_char((b[1] % 4) * 16 + (b[2] \div 16)),
           b64_char((b[2] % 16) * 4), b64_pad>>
    ELSE <<b64_char(b[1] \div 4), b64_char((b[1] % 4) * 16 + (b[2] \div 16)),
           b64_char((b[2] % 16) * 4 + (b[3] \div 64)), b64_char(b[3] % 64)>>
         \o b64encode(SubSeq(b, 4, Len(b)))

\* base64.b64decode(b) with validate=False: bytes outside the alphabet are
\* passed over, a '=' counts as padding from the third character of a
\* group on, complete padding ends the input, and data that stops inside a
\* group is the binascii.Error
RECURSIVE b64decode_from(_, _, _, _, _, _)
b64decode_from(b, i, quad_pos, leftchar, pads, out) ==
    IF i > Len(b)
    THEN [ok |-> quad_pos = 0, bytes |-> IF quad_pos = 0 THEN out ELSE <<>>]
    ELSE IF b[i] = b64_pad
    THEN IF quad_pos >= 2 /\ quad_pos + pads + 1 >= 4
         THEN [ok |-> TRUE, bytes |-> out]
         ELSE b64decode_from(b, i + 1, quad_pos, leftchar,
                             IF quad_pos >= 2 THEN pads + 1 ELSE pads, out)
    ELSE IF b64_value(b[i]) = 64
    THEN b64decode_from(b, i + 1, quad_pos, leftchar, pads, out)
    ELSE LET v == b64_value(b[i])
         IN  IF quad_pos = 0 THEN b64decode_from(b, i + 1, 1, v, 0, out)
             ELSE IF quad_pos = 1
             THEN b64decode_from(b, i + 1, 2, v % 16, 0,
                                 Append(out, leftchar * 4 + (v \div 16)))
             ELSE IF quad_pos = 2
             THEN b64decode_from(b, i + 1, 3, v % 4, 0,
                                 Append(out, leftchar * 16 + (v \div 4)))
             ELSE b64decode_from(b, i + 1, 0, 0, 0, Append(out, leftchar * 64 + v))

b64decode(b) == b64decode_from(b, 1, 0, 0, 0, <<>>)

\* mutant: the bytes are shifted by the first byte of the key
encrypt_data_keyed(data, key) ==
    LET shift == IF key = <<>> THEN 0 ELSE str_encode(key)[1]
        shifted == [i \in 1..Len(str_encode(data)) |-> (str_encode(data)[i] + shift) % 256]
    IN  b64encode(shifted)

\* lines 170-175: key_hash is computed and not used
encrypt_data(data, key) == b64encode(str_encode(data))

\* lines 177-184
decrypt_data(encrypted_data, key) ==
    LET raw == b64decode(str_encode(encrypted_data))
        decoded == bytes_decode(raw.bytes)
    IN  IF raw.ok /\ decoded.ok THEN decoded.text ELSE encrypted_data

MaxTextLength == 3

\* 'a', 'Q', '=', '!', e acute, the euro sign and an emoji
CodePoints == {97, 81, 61, 33, 233, 8364, 128512}

RECURSIVE TextsUpTo(_)
TextsUpTo(n) ==
    IF n = 0 THEN {<<>>}
    ELSE LET shorter == TextsUpTo(n - 1)
         IN  shorter \cup {Append(t, cp) : t \in shorter, cp \in CodePoints}

Texts == TextsUpTo(MaxTextLength)

\* 'k' and a key of two characters, one of them not ASCII
Keys == {<<107>>, <<233, 49>>}

EncryptCalls ==
    {[op |-> "encrypt_data", data |-> d, key |-> k1, other_key |-> k2] :
        d \in Texts, k1 \in Keys, k2 \in Keys}
    \cup {[op |-> "decrypt_data", data |-> d, key |-> k, other_key |-> k] :
            d \in Texts, k \in Keys}

RandomCalls ==
    {[op |-> "generate_random_enhanced_password", length |-> n, seed |-> r] :
        n \in 0..MaxRandomLength, r \in Seeds}

HelperCalls == RandomCalls \cup EncryptCalls

InitHelpers ==
    /\ call \in HelperCalls
    /\ result = NoResult
    /\ SessionIdle

GenerateRandomEnhancedPassword ==
    /\ call.op = "generate_random_enhanced_password"
    /\ ~result.done
    /\ result' = [done |-> TRUE,
                  value |-> generate_random_enhanced_password(call.length, call.seed)]
    /\ UNCHANGED <<call, sessionVars>>

\* encrypt_data under each of the two keys, and decrypt_data of the first
\* result under the other key
EncryptData ==
    /\ call.op = "encrypt_data"
    /\ ~result.done
    /\ result' = [done |-> TRUE,
                  value |-> [encrypted |-> encrypt_data(call.data, call.key),
                             encrypted_other |-> encrypt_data(call.data, call.other_key),
                             decrypted |-> decrypt_data(encrypt_data(call.data, call.key),
                                                        call.other_key)]]
    /\ UNCHANGED <<call, sessionVars>>

\* decrypt_data of a text that encrypt_data need not have produced
DecryptData ==
    /\ call.op = "decrypt_data"
    /\ ~result.done
    /\ result' = [done |-> TRUE, value |-> decrypt_data(call.data, call.key)]
    /\ UNCHANGED <<call, sessionVars>>

NextHelpers ==
    \/ GenerateRandomEnhancedPassword
    \/ EncryptData
    \/ DecryptData

SpecHelpers == InitHelpers /\ [][NextHelpers]_vars

\* C24: for every length n from 4 on, those from 12 to 20 included,
\* generate_random_enhanced_password(n) returns n characters that are
\* letters, digits or characters of the special set, with a lowercase
\* letter, an uppercase letter, a digit and a special character among them,
\* and analyze_strength finds all four classes in it
C24_AllClasses ==
    (call.op = "generate_random_enhanced_password" /\ result.done /\ call.length >= 4) =>
        LET password == result.value
        IN  /\ Len(password) = call.length
            /\ \A i \in 1..Len(password) :
                  password[i] \in LowerSet \cup UpperSet \cup DigitSet \cup SpecialSet
            /\ ClaimClasses(password) = {"upper", "lower", "digit", "special"}
            /\ analyze_strength(password).has_upper
            /\ analyze_strength(password).has_lower
            /\ analyze_strength(password).has_digit
            /\ analyze_strength(password).has_special

\* the shortest password of the top-up strategy, 12 characters, from a
\* stream that varies
C24_Witness ==
    /\ call.op = "generate_random_enhanced_password"
    /\ result.done
    /\ call.length = 12
    /\ call.seed = 1
    /\ Len(result.value) = 12
    /\ Cardinality(ClaimClasses(result.value)) = 4

\* the text is base64 of UTF-8: groups of four characters of the alphabet,
\* the last one filled up with '=', whose bytes are well-formed UTF-8
ClaimDecodable(text) ==
    /\ b64decode(str_encode(text)).ok
    /\ bytes_decode(b64decode(str_encode(text)).bytes).ok

\* C25: encrypt_data gives the same text under every key, decrypt_data under
\* any key gives back the text that encrypt_data was given, and decrypt_data
\* returns a text that cannot be decoded as it is
C25_KeyIgnored ==
    /\ (call.op = "encrypt_data" /\ result.done) =>
          /\ result.value.decrypted = call.data
          /\ result.value.encrypted = result.value.encrypted_other
    /\ (call.op = "decrypt_data" /\ result.done /\ ~ClaimDecodable(call.data)) =>
          result.value = call.data

\* 'a', e acute and the euro sign under two different keys: the encrypted
\* text is 'YcOp4oKs' and not the text itself
C25_Witness ==
    /\ call.op = "encrypt_data"
    /\ result.done
    /\ call.data = <<97, 233, 8364>>
    /\ call.key # call.other_key
    /\ result.value.encrypted = <<89, 99, 79, 112, 52, 111, 75, 115>>
    /\ result.value.decrypted = <<97, 233, 8364>>

====
